---- MODULE Spec2Model ----
(***************************************************************************)
(* OPINE (mos-fp): arbitrary-layout binary floating-point formats.         *)
(*                                                                         *)
(* The library is a set of pure, compile-time-parametrised functions:      *)
(*   FormatDescriptor<...>            include/opine/core/format.hpp        *)
(*   UnpackedFloat<Format, Rounding>  include/opine/core/unpacked.hpp      *)
(*   unpack / pack                    include/opine/operations/...         *)
(*   TowardZero / ToNearestTiesToEven include/opine/policies/rounding.hpp  *)
(*   ExactWidth / LeastWidth / Fastest include/opine/policies/type_sel...  *)
(*                                                                         *)
(* A state of the model is one template instantiation (format descriptor,  *)
(* numeric-width policy as the compiler sees it, rounding policy)          *)
(* together with the arguments and result of the call made so far.  Init   *)
(* picks the instantiation; every action is one call.  SpecDescriptor      *)
(* starts one step earlier, from a declaration that may not compile.       *)
(* SpecSelect instantiates the uint_t / int_t aliases alone, SpecOracle     *)
(* runs the native-float oracle of the tests, and SpecConcurrent           *)
(* interleaves the statements of unpack and pack run by several threads.   *)
(*                                                                         *)
(* Integers are modelled as naturals; every store into a typed C++ object  *)
(* reduces the value modulo 2^width of that type (Cast).  Arithmetic on an *)
(* unsigned _BitInt(N) stays N bits wide (no integer promotion); on the    *)
(* standard uint_leastN_t / uint_fastN_t types it is carried out in int or *)
(* wider, which no value of the model overflows, and is reduced only when  *)
(* it is stored.  The width of a uint_fastN_t is the choice of the build's *)
(* <cstdint>: N bits, the least it may be, or what glibc chooses on x86-64 *)
(* (64 bits for every N above 8).  A shift by a negative count, which the  *)
(* code performs in a descriptor with a negative offset, is undefined: its *)
(* result is any value of the operand's type.                              *)
(***************************************************************************)
EXTENDS Integers, FiniteSets, Sequences, TLC

VARIABLES
    fmt,                  \* the FormatDescriptor instantiation (a record)
    RoundingPolicy,       \* "TowardZero" | "ToNearestTiesToEven"
    pc,                   \* which call has been made
    bits,                 \* argument of unpack
    unpacked,             \* an UnpackedFloat<Format, RoundingPolicy>
    packed,               \* result of pack
    wide_mantissa,        \* argument of a direct round_mantissa call
    is_negative,          \* argument of a direct round_mantissa call
    rounded,              \* result of a direct round_mantissa call
    native,               \* a native float, result of to_native_float
    request,              \* a uint_t<Bits, Policy> / int_t<Bits, Policy> alias
    selected,             \* the type the alias names
    calls,                \* per thread: argument, position, return values
    frames,               \* per stack frame: the local object `result`
    bias_supplied,        \* the declaration wrote the ExponentBias argument
    bias,                 \* value read from Format::exp_bias
    standard              \* result of Format::is_standard_layout()

vars == <<fmt, RoundingPolicy, pc, bits, unpacked, packed, wide_mantissa,
          is_negative, rounded, native, request, selected, calls, frames,
          bias_supplied, bias, standard>>

----------------------------------------------------------------------------
(* Bounds of the model                                                     *)

\* Descriptors with non-overlapping fields: total_bits <= MaxTotalBits.
MaxTotalBits == 4

\* Descriptors with fields placed anywhere: total_bits <= MaxOverlapBits.
MaxOverlapBits == 3

\* Descriptors for direct round_mantissa calls: mant_bits <= MaxMantBits.
MaxMantBits == 3

\* Declared descriptors: template arguments up to MaxDeclBits ...
MaxDeclBits == 4

\* ... and down to -MaxNegative.
MaxNegative == 1

\* Declared bias overrides: -MaxBias .. MaxBias.
MaxBias == 2

\* Threads calling the library at the same time.
MaxThreads == 2

\* Requested type widths: 0 .. MaxRequestBits.
MaxRequestBits == 129

\* Exponents handed to pack: up to exp_bits + MaxExcessBits bits, where the
\* exponent's type holds them.
MaxExcessBits == 1

----------------------------------------------------------------------------
(* Bit operations on naturals (C++ operators >>, &, |)                     *)

Pow2(n) == 2 ^ n

\* x >> k
Shr(x, k) == x \div Pow2(k)

RECURSIVE BitAnd(_, _)
\* a & b
BitAnd(a, b) ==
    IF a = 0 \/ b = 0 THEN 0
    ELSE (IF a % 2 = 1 /\ b % 2 = 1 THEN 1 ELSE 0)
         + 2 * BitAnd(a \div 2, b \div 2)

RECURSIVE BitOr(_, _)
\* a | b
BitOr(a, b) ==
    IF a = 0 THEN b
    ELSE IF b = 0 THEN a
    ELSE (IF a % 2 = 1 \/ b % 2 = 1 THEN 1 ELSE 0)
         + 2 * BitOr(a \div 2, b \div 2)

\* bit i of x
Bit(x, i) == Shr(x, i) % 2

----------------------------------------------------------------------------
(* Numeric-width provider: policies/type_selection.hpp, core/types.hpp     *)
(*                                                                         *)
(* A type policy is the policy struct as one build sees it: its name,      *)
(* detail::has_bitint_support (true when compiled by Clang), and the       *)
(* <cstdint> that defines the uint_fastN_t / int_fastN_t it names.         *)

PolicyNames == {"ExactWidth", "LeastWidth", "Fastest"}

\* <cstdint> with fast types of the least width allowed, and that of glibc
\* on x86-64.
CStdInts == {"minimal", "glibc_x86_64"}

\* The policies on a build whose fast types have the least width.
TypePolicies ==
    [name : PolicyNames, has_bitint_support : BOOLEAN, cstdint : {"minimal"}]

\* The policies on every build.
PlatformTypePolicies ==
    [name : PolicyNames, has_bitint_support : BOOLEAN, cstdint : CStdInts]

\* Mutant: the size-class boundaries are exclusive (8 bits need 16).
SizeClass_exclusive(Bits) ==
    IF Bits < 8 THEN 8
    ELSE IF Bits < 16 THEN 16
    ELSE IF Bits < 32 THEN 32
    ELSE 64

\* The four standard size classes tried in turn by the if-constexpr chains.
SizeClass(Bits) ==
    IF Bits <= 8 THEN 8
    ELSE IF Bits <= 16 THEN 16
    ELSE IF Bits <= 32 THEN 32
    ELSE 64

\* The width of uint_fastN_t and int_fastN_t: N bits at least; on glibc
\* for x86-64 uint_fast8_t is unsigned char and the others unsigned long.
FastWidth(cstdint, N) ==
    IF cstdint = "glibc_x86_64" /\ N > 8 THEN 64 ELSE N

\* A selected type: its family, the size N in its name (uint_fastN_t,
\* _BitInt(N)) and the number of bits it holds.
BitIntType(Bits) == [kind |-> "unsigned _BitInt", size |-> Bits, width |-> Bits]

StdType(family, Bits, cstdint) ==
    [kind |-> family, size |-> SizeClass(Bits),
     width |-> IF family \in {"uint_fast", "int_fast"}
               THEN FastWidth(cstdint, SizeClass(Bits))
               ELSE SizeClass(Bits)]

\* ExactWidth::select_unsigned<Bits>()
ExactWidth_select_unsigned(Bits, has_bitint_support, cstdint) ==
    IF has_bitint_support THEN BitIntType(Bits)
    ELSE StdType("uint_fast", Bits, cstdint)

\* LeastWidth::select_unsigned<Bits>()
LeastWidth_select_unsigned(Bits, has_bitint_support, cstdint) ==
    IF Bits <= 64 THEN StdType("uint_least", Bits, cstdint)
    ELSE BitIntType(Bits)

\* Fastest::select_unsigned<Bits>()
Fastest_select_unsigned(Bits, has_bitint_support, cstdint) ==
    IF Bits <= 64 THEN StdType("uint_fast", Bits, cstdint)
    ELSE BitIntType(Bits)

\* uint_t<Bits, Policy>
uint_t(Bits, Policy) ==
    CASE Policy.name = "ExactWidth" ->
             ExactWidth_select_unsigned(Bits, Policy.has_bitint_support,
                                      Policy.cstdint)
      [] Policy.name = "LeastWidth" ->
             LeastWidth_select_unsigned(Bits, Policy.has_bitint_support,
                                      Policy.cstdint)
      [] Policy.name = "Fastest" ->
             Fastest_select_unsigned(Bits, Policy.has_bitint_support,
                                      Policy.cstdint)

\* The static_asserts of select_unsigned<Bits>(), the same in the three
\* policies: Bits is between 1 and 128, and at most 64 without _BitInt.
select_unsigned_well_formed(Bits, Policy) ==
    /\ Bits > 0 /\ Bits <= 128
    /\ Policy.has_bitint_support \/ Bits <= 64

\* signed _BitInt(Bits)
SignedBitIntType(Bits) == [kind |-> "_BitInt", size |-> Bits, width |-> Bits]

\* ExactWidth::select_signed<Bits>()
ExactWidth_select_signed(Bits, has_bitint_support, cstdint) ==
    IF has_bitint_support THEN SignedBitIntType(Bits)
    ELSE IF Bits <= 1 THEN StdType("int_fast", 8, cstdint)
    ELSE StdType("int_fast", Bits, cstdint)

\* LeastWidth::select_signed<Bits>()
LeastWidth_select_signed(Bits, has_bitint_support, cstdint) ==
    IF Bits <= 1 THEN StdType("int_least", 8, cstdint)
    ELSE IF Bits <= 64 THEN StdType("int_least", Bits, cstdint)
    ELSE SignedBitIntType(Bits)

\* Fastest::select_signed<Bits>()
Fastest_select_signed(Bits, has_bitint_support, cstdint) ==
    IF Bits <= 1 THEN StdType("int_fast", 8, cstdint)
    ELSE IF Bits <= 64 THEN StdType("int_fast", Bits, cstdint)
    ELSE SignedBitIntType(Bits)

\* int_t<Bits, Policy>
int_t(Bits, Policy) ==
    CASE Policy.name = "ExactWidth" ->
             ExactWidth_select_signed(Bits, Policy.has_bitint_support,
                                      Policy.cstdint)
      [] Policy.name = "LeastWidth" ->
             LeastWidth_select_signed(Bits, Policy.has_bitint_support,
                                      Policy.cstdint)
      [] Policy.name = "Fastest" ->
             Fastest_select_signed(Bits, Policy.has_bitint_support,
                                      Policy.cstdint)

\* The static_asserts of select_signed<Bits>(): those of select_unsigned,
\* and under ExactWidth with _BitInt at least 2 bits.
select_signed_well_formed(Bits, Policy) ==
    /\ Bits > 0 /\ Bits <= 128
    /\ (Policy.name = "ExactWidth" /\ Policy.has_bitint_support) => Bits >= 2
    /\ Policy.has_bitint_support \/ Bits <= 64

\* static_cast<T>(x), and every store into an object of type T.  The
\* integers of the model are below 2^31: a type of 31 bits or more holds
\* each of them unchanged.
Cast(T, x) == IF T.width >= 31 THEN x ELSE x % Pow2(T.width)

\* The value of an arithmetic expression whose operands have type T:
\* _BitInt operands are not promoted, the standard types are (to int).
Arith(T, x) == IF T.kind = "unsigned _BitInt" THEN Cast(T, x) ELSE x

\* (T)x << k
Shl(T, x, k) == Arith(T, x * Pow2(k))

\* (T{1} << n) - 1
LowMask(T, n) == Arith(T, Shl(T, 1, n) - 1)

----------------------------------------------------------------------------
(* Format descriptor: core/format.hpp                                      *)

\* Mutant: the check that the mantissa field ends inside total_bits is
\* missing.
ValidDescriptor_no_mant_range(f) ==
    /\ f.sign_bits > 0
    /\ f.exp_bits > 0
    /\ f.mant_bits > 0
    /\ f.total_bits >= f.sign_bits + f.exp_bits + f.mant_bits
    /\ f.sign_offset + f.sign_bits <= f.total_bits
    /\ f.exp_offset + f.exp_bits <= f.total_bits

\* The static_asserts of FormatDescriptor.
ValidDescriptor(f) ==
    /\ f.sign_bits > 0
    /\ f.exp_bits > 0
    /\ f.mant_bits > 0
    /\ f.total_bits >= f.sign_bits + f.exp_bits + f.mant_bits
    /\ f.sign_offset + f.sign_bits <= f.total_bits
    /\ f.exp_offset + f.exp_bits <= f.total_bits
    /\ f.mant_offset + f.mant_bits <= f.total_bits

\* FormatDescriptor<SignBits, SignOffset, ExpBits, ExpOffset, MantBits,
\*                  MantOffset, TotalBits, HasImplicitBit, ExponentBias,
\*                  TypePolicy>
FormatDescriptor(SignBits, SignOffset, ExpBits, ExpOffset, MantBits, MantOffset, TotalBits, HasImplicitBit, ExponentBias, TypePolicy) ==
    [sign_bits |-> SignBits, sign_offset |-> SignOffset,
     exp_bits |-> ExpBits, exp_offset |-> ExpOffset,
     mant_bits |-> MantBits, mant_offset |-> MantOffset,
     total_bits |-> TotalBits, has_implicit_bit |-> HasImplicitBit,
     ExponentBias |-> ExponentBias, type_policy |-> TypePolicy]

\* Mutant: the sign is placed at the least-significant bit.
IEEE_Format_sign_low(ExpBits, MantBits, TypePolicy) ==
    FormatDescriptor(1, 0, ExpBits, MantBits, MantBits, 0,
                     1 + ExpBits + MantBits, TRUE, -1, TypePolicy)

\* IEEE_Format<ExpBits, MantBits, TypePolicy>
IEEE_Format(ExpBits, MantBits, TypePolicy) ==
    FormatDescriptor(1, ExpBits + MantBits, ExpBits, MantBits, MantBits, 0,
                     1 + ExpBits + MantBits, TRUE, -1, TypePolicy)

\* DefaultTypeSelectionPolicy, as compiled with or without _BitInt
DefaultTypeSelectionPolicy(has_bitint_support) ==
    [name |-> "ExactWidth", has_bitint_support |-> has_bitint_support,
     cstdint |-> "minimal"]

\* fp8_e5m2 = IEEE_Format<5, 2>
fp8_e5m2(has_bitint_support) ==
    IEEE_Format(5, 2, DefaultTypeSelectionPolicy(has_bitint_support))

\* fp8_e4m3 = IEEE_Format<4, 3>
fp8_e4m3(has_bitint_support) ==
    IEEE_Format(4, 3, DefaultTypeSelectionPolicy(has_bitint_support))

\* PaddedFormat of tests/unit/test_pack_unpack.cpp:
\* [pad:3][S:1][E:4][M:3][pad:1]
PaddedFormat(has_bitint_support) ==
    FormatDescriptor(1, 8, 4, 4, 3, 1, 12, TRUE, -1,
                     DefaultTypeSelectionPolicy(has_bitint_support))

\* fp16_e5m10, fp32_e8m23, fp64_e11m52
fp16_e5m10(has_bitint_support) ==
    IEEE_Format(5, 10, DefaultTypeSelectionPolicy(has_bitint_support))

fp32_e8m23(has_bitint_support) ==
    IEEE_Format(8, 23, DefaultTypeSelectionPolicy(has_bitint_support))

fp64_e11m52(has_bitint_support) ==
    IEEE_Format(11, 52, DefaultTypeSelectionPolicy(has_bitint_support))

\* Format::storage_type, exponent_type, mantissa_storage_type
storage_type(f) == uint_t(f.total_bits, f.type_policy)
exponent_type(f) == uint_t(f.exp_bits, f.type_policy)
mantissa_storage_type(f) == uint_t(f.mant_bits, f.type_policy)

\* The three member type aliases can be formed.
member_types_well_formed(f) ==
    /\ select_unsigned_well_formed(f.total_bits, f.type_policy)
    /\ select_unsigned_well_formed(f.exp_bits, f.type_policy)
    /\ select_unsigned_well_formed(f.mant_bits, f.type_policy)

\* The initializer of exp_bias is a constant expression: with an explicit
\* bias it is the argument; with -1 it is (1 << (ExpBits - 1)) - 1 in int
\* (32 bits), where a shift count outside 0..31 is undefined and 1 << 31
\* less 1 overflows, neither of which a constant expression may do.
exp_bias_well_formed(f) ==
    f.ExponentBias # -1 \/ (f.exp_bits - 1) \in 0..30

\* Mutant: the automatic bias is 2^ExpBits - 1.
exp_bias_full_range(f) ==
    IF f.ExponentBias = -1 THEN Pow2(f.exp_bits) - 1 ELSE f.ExponentBias

\* Format::exp_bias
exp_bias(f) ==
    IF f.ExponentBias = -1 THEN Pow2(f.exp_bits - 1) - 1 ELSE f.ExponentBias

\* Mutant: the sign does not have to be one bit wide and on top.
is_standard_layout_any_sign(f) ==
    /\ f.exp_offset = f.mant_offset + f.mant_bits
    /\ f.mant_offset = 0
    /\ f.total_bits = f.sign_bits + f.exp_bits + f.mant_bits

\* Format::is_standard_layout()
is_standard_layout(f) ==
    /\ f.sign_bits = 1
    /\ f.sign_offset = f.exp_offset + f.exp_bits
    /\ f.exp_offset = f.mant_offset + f.mant_bits
    /\ f.mant_offset = 0
    /\ f.total_bits = f.sign_bits + f.exp_bits + f.mant_bits

----------------------------------------------------------------------------
(* Rounding policies and the unpacked representation                       *)

RoundingPolicies == {"TowardZero", "ToNearestTiesToEven"}

\* RoundingPolicy::guard_bits
guard_bits(RP) == IF RP = "TowardZero" THEN 0 ELSE 3

\* UnpackedFloat<Format, RoundingPolicy>::mantissa_bits
mantissa_bits(f, RP) ==
    f.mant_bits + (IF f.has_implicit_bit THEN 1 ELSE 0) + guard_bits(RP)

\* UnpackedFloat<Format, RoundingPolicy>::mantissa_type
mantissa_type(f, RP) == uint_t(mantissa_bits(f, RP), f.type_policy)

\* UnpackedFloat<Format, RoundingPolicy>::implicit_bit_position()
implicit_bit_position(f, RP) ==
    IF f.has_implicit_bit THEN f.mant_bits + guard_bits(RP) ELSE -1

----------------------------------------------------------------------------
(* unpack: operations/pack_unpack.hpp                                      *)

\* Mutant: the sign is read inverted.
unpack_sign_inverted(f, b) ==
    LET ST == storage_type(f)
        sign_mask == LowMask(ST, f.sign_bits)
    IN  Arith(ST, BitAnd(Shr(b, f.sign_offset), sign_mask)) = 0

\* result.sign = static_cast<bool>((bits >> sign_offset) & sign_mask)
unpack_sign(f, b) ==
    LET ST == storage_type(f)
        sign_mask == LowMask(ST, f.sign_bits)
    IN  Arith(ST, BitAnd(Shr(b, f.sign_offset), sign_mask)) # 0

\* Mutant: the exponent is masked with the mantissa's width.
unpack_exponent_mant_width(f, b) ==
    LET ST == storage_type(f)
        exp_mask == LowMask(ST, f.mant_bits)
    IN  Cast(exponent_type(f), BitAnd(Shr(b, f.exp_offset), exp_mask))

\* Mutant: the bias is subtracted from the exponent field.
unpack_exponent_unbiased(f, b) ==
    LET ST == storage_type(f)
        exp_mask == LowMask(ST, f.exp_bits)
    IN  Cast(exponent_type(f),
             BitAnd(Shr(b, f.exp_offset), exp_mask) - exp_bias(f))

\* result.exponent = static_cast<exponent_type>((bits >> exp_offset) & exp_mask)
unpack_exponent(f, b) ==
    LET ST == storage_type(f)
        exp_mask == LowMask(ST, f.exp_bits)
    IN  Cast(exponent_type(f), BitAnd(Shr(b, f.exp_offset), exp_mask))

\* Mutant: the stored mantissa is shifted down but not masked.
unpack_mant_stored_unmasked(f, b) ==
    Arith(storage_type(f), Shr(b, f.mant_offset))

\* auto mant_stored = (bits >> mant_offset) & mant_mask
unpack_mant_stored(f, b) ==
    LET ST == storage_type(f)
        mant_mask == LowMask(ST, f.mant_bits)
    IN  Arith(ST, BitAnd(Shr(b, f.mant_offset), mant_mask))

\* Mutant: the implicit bit is set whatever the exponent is.
unpack_mantissa_always_implicit(f, RP, exponent, mant_stored) ==
    LET MT == mantissa_type(f, RP)
        mant_shifted == Shl(MT, Cast(MT, mant_stored), guard_bits(RP))
        implicit_bit_pos == f.mant_bits + guard_bits(RP)
    IN  IF f.has_implicit_bit
        THEN Cast(MT, BitOr(mant_shifted, Shl(MT, 1, implicit_bit_pos)))
        ELSE Cast(MT, mant_shifted)

\* Mutant: the stored bits are not shifted above the guard bits.
unpack_mantissa_unshifted(f, RP, exponent, mant_stored) ==
    LET MT == mantissa_type(f, RP)
        mant_shifted == Cast(MT, mant_stored)
        implicit_bit_pos == f.mant_bits + guard_bits(RP)
    IN  IF f.has_implicit_bit /\ exponent # 0
        THEN Cast(MT, BitOr(mant_shifted, Shl(MT, 1, implicit_bit_pos)))
        ELSE Cast(MT, mant_shifted)

\* Mutant: the implicit bit is placed one position above
\* mant_bits + guard_bits.
unpack_mantissa_implicit_above(f, RP, exponent, mant_stored) ==
    LET MT == mantissa_type(f, RP)
        mant_shifted == Shl(MT, Cast(MT, mant_stored), guard_bits(RP))
        implicit_bit_pos == f.mant_bits + guard_bits(RP) + 1
    IN  IF f.has_implicit_bit /\ exponent # 0
        THEN Cast(MT, BitOr(mant_shifted, Shl(MT, 1, implicit_bit_pos)))
        ELSE Cast(MT, mant_shifted)

\* The if constexpr (Format::has_implicit_bit) block building result.mantissa
unpack_mantissa(f, RP, exponent, mant_stored) ==
    LET MT == mantissa_type(f, RP)
        mant_shifted == Shl(MT, Cast(MT, mant_stored), guard_bits(RP))
        implicit_bit_pos == f.mant_bits + guard_bits(RP)
        is_normal == exponent # 0
    IN  IF f.has_implicit_bit
        THEN IF is_normal
             THEN Cast(MT, BitOr(mant_shifted, Shl(MT, 1, implicit_bit_pos)))
             ELSE Cast(MT, mant_shifted)
        ELSE Cast(MT, mant_shifted)

\* unpack<Format, RoundingPolicy>(bits)
unpack(f, RP, b) ==
    LET exponent == unpack_exponent(f, b)
    IN  [sign |-> unpack_sign(f, b),
         exponent |-> exponent,
         mantissa |-> unpack_mantissa(f, RP, exponent,
                                      unpack_mant_stored(f, b))]

\* No offset of the descriptor is negative: every shift of unpack and pack
\* has a count that is defined.
NonNegativeOffsets(f) ==
    f.sign_offset >= 0 /\ f.exp_offset >= 0 /\ f.mant_offset >= 0

\* What a shift by a negative count (undefined) may leave in an expression
\* of type T that holds a value of n bits: any value of T, here of at most
\* n + MaxExcessBits bits.
UndefinedValues(T, n) ==
    LET w == IF T.width < n + MaxExcessBits THEN T.width
             ELSE n + MaxExcessBits
    IN  0..(Pow2(w) - 1)

\* What a call unpack<Format, RoundingPolicy>(bits) may return: the value
\* of unpack, unless a field's offset is negative; then bits >> offset is
\* undefined for that field, and the statements after it go on from
\* whatever it left.
unpack_outcomes(f, RP, b) ==
    IF NonNegativeOffsets(f) THEN {unpack(f, RP, b)}
    ELSE LET ST == storage_type(f)
             undefined == UndefinedValues(ST, f.total_bits)
             signs ==
                 IF f.sign_offset >= 0 THEN {unpack_sign(f, b)}
                 ELSE { Arith(ST, BitAnd(x, LowMask(ST, f.sign_bits))) # 0 :
                          x \in undefined }
             exponents ==
                 IF f.exp_offset >= 0 THEN {unpack_exponent(f, b)}
                 ELSE { Cast(exponent_type(f),
                             BitAnd(x, LowMask(ST, f.exp_bits))) :
                          x \in undefined }
             stored ==
                 IF f.mant_offset >= 0 THEN {unpack_mant_stored(f, b)}
                 ELSE { Arith(ST, BitAnd(x, LowMask(ST, f.mant_bits))) :
                          x \in undefined }
         IN  { [sign |-> sgn, exponent |-> e,
                mantissa |-> unpack_mantissa(f, RP, e, m)] :
                 sgn \in signs, e \in exponents, m \in stored }

----------------------------------------------------------------------------
(* round_mantissa: policies/rounding.hpp                                   *)

\* Mutant: the implicit bit is not masked off.
TowardZero_round_mantissa_keep_implicit(f, MT, wide, neg) ==
    Cast(mantissa_storage_type(f), wide)

\* TowardZero::round_mantissa<Format>(wide_mantissa, is_negative)
\* MT is the deduced MantissaType of the argument.
TowardZero_round_mantissa(f, MT, wide, neg) ==
    LET result_type == mantissa_storage_type(f)
    IN  IF f.has_implicit_bit
        THEN Cast(result_type, BitAnd(wide, LowMask(MT, f.mant_bits)))
        ELSE Cast(result_type, wide)

\* Mutant: the implicit bit is not masked off the stored bits.
ToNearestTiesToEven_stored_bits_unmasked(f, MT, wide) ==
    Cast(MT, Shr(wide, 3))

\* Steps 1 and 2: stored_bits = wide_mantissa >> guard_bits, implicit bit
\* masked off.
ToNearestTiesToEven_stored_bits(f, MT, wide) ==
    LET shifted == Cast(MT, Shr(wide, 3))
    IN  IF f.has_implicit_bit
        THEN Cast(MT, BitAnd(shifted, LowMask(MT, f.mant_bits)))
        ELSE shifted

\* Mutant: GRS is read from the three bits above the guard bits.
ToNearestTiesToEven_grs_above_guard(f, wide) ==
    Cast(uint_t(3, f.type_policy), BitAnd(Shr(wide, 3), 7))

\* Step 3: grs = static_cast<guard_bits_type>(wide_mantissa & 0b111)
ToNearestTiesToEven_grs(f, wide) ==
    Cast(uint_t(3, f.type_policy), BitAnd(wide, 7))

\* Mutant: never rounds up (truncation).
round_up_never(grs, stored_bits) == FALSE

\* Mutant: rounds up exactly when the guard bits are below half.
round_up_below_half(grs, stored_bits) == grs \in 1..3

\* Mutant: a tie always rounds up (ties away from zero).
round_up_ties_away(grs, stored_bits) == grs >= 4

\* Mutant: only a tie on an odd value rounds up.
round_up_only_ties(grs, stored_bits) ==
    grs = 4 /\ BitAnd(stored_bits, 1) # 0

\* Step 4: bool round_up = (grs > 4) || (grs == 4 && (stored_bits & 1))
ToNearestTiesToEven_round_up(grs, stored_bits) ==
    (grs > 4) \/ (grs = 4 /\ BitAnd(stored_bits, 1) # 0)

\* Mutant: a directed mode, a negative value with any guard bit set is
\* rounded away from zero.
ToNearestTiesToEven_round_mantissa_directed(f, MT, wide, neg) ==
    LET result_type == mantissa_storage_type(f)
        stored_bits == ToNearestTiesToEven_stored_bits(f, MT, wide)
        grs == ToNearestTiesToEven_grs(f, wide)
        round_up == neg /\ grs # 0
        incremented == IF round_up THEN Cast(MT, Arith(MT, stored_bits + 1))
                       ELSE stored_bits
    IN  Cast(result_type, incremented)

\* ToNearestTiesToEven::round_mantissa<Format>(wide_mantissa, is_negative)
ToNearestTiesToEven_round_mantissa(f, MT, wide, neg) ==
    LET result_type == mantissa_storage_type(f)
        stored_bits == ToNearestTiesToEven_stored_bits(f, MT, wide)
        grs == ToNearestTiesToEven_grs(f, wide)
        round_up == ToNearestTiesToEven_round_up(grs, stored_bits)
        incremented == IF round_up THEN Cast(MT, Arith(MT, stored_bits + 1))
                       ELSE stored_bits
    IN  Cast(result_type, incremented)

\* RoundingPolicy::template round_mantissa<Format>(wide_mantissa, is_negative)
round_mantissa(f, RP, wide, neg) ==
    IF RP = "TowardZero"
    THEN TowardZero_round_mantissa(f, mantissa_type(f, RP), wide, neg)
    ELSE ToNearestTiesToEven_round_mantissa(f, mantissa_type(f, RP), wide, neg)

----------------------------------------------------------------------------
(* pack: operations/pack_unpack.hpp                                        *)

\* Mutant: the exponent is clamped to exp_bits bits before it is placed.
pack_exponent_clamped(f, RP, u) ==
    LET ST == storage_type(f)
        sign_value == Cast(ST, IF u.sign THEN 1 ELSE 0)
        r1 == Cast(ST, BitOr(0, Shl(ST, sign_value, f.sign_offset)))
        exp_value == Cast(ST, u.exponent % Pow2(f.exp_bits))
        r2 == Cast(ST, BitOr(r1, Shl(ST, exp_value, f.exp_offset)))
        rounded_mant == round_mantissa(f, RP, u.mantissa, u.sign)
        mant_value == Cast(ST, rounded_mant)
    IN  Cast(ST, BitOr(r2, Shl(ST, mant_value, f.mant_offset)))

\* Mutant: the mantissa is placed at bit 0 instead of mant_offset.
pack_mantissa_at_zero(f, RP, u) ==
    LET ST == storage_type(f)
        sign_value == Cast(ST, IF u.sign THEN 1 ELSE 0)
        r1 == Cast(ST, BitOr(0, Shl(ST, sign_value, f.sign_offset)))
        exp_value == Cast(ST, u.exponent)
        r2 == Cast(ST, BitOr(r1, Shl(ST, exp_value, f.exp_offset)))
        rounded_mant == round_mantissa(f, RP, u.mantissa, u.sign)
        mant_value == Cast(ST, rounded_mant)
    IN  Cast(ST, BitOr(r2, mant_value))

\* pack<Format, RoundingPolicy>(unpacked)
pack(f, RP, u) ==
    LET ST == storage_type(f)
        sign_value == Cast(ST, IF u.sign THEN 1 ELSE 0)
        r1 == Cast(ST, BitOr(0, Shl(ST, sign_value, f.sign_offset)))
        exp_value == Cast(ST, u.exponent)
        r2 == Cast(ST, BitOr(r1, Shl(ST, exp_value, f.exp_offset)))
        rounded_mant == round_mantissa(f, RP, u.mantissa, u.sign)
        mant_value == Cast(ST, rounded_mant)
    IN  Cast(ST, BitOr(r2, Shl(ST, mant_value, f.mant_offset)))

\* The statements of pack, each acting on the local `result`:
\* result |= (sign_value << Format::sign_offset)
pack_sign(f, result, u) ==
    LET ST == storage_type(f)
        sign_value == Cast(ST, IF u.sign THEN 1 ELSE 0)
    IN  Cast(ST, BitOr(result, Shl(ST, sign_value, f.sign_offset)))

\* result |= (exp_value << Format::exp_offset)
pack_exponent(f, result, u) ==
    LET ST == storage_type(f)
        exp_value == Cast(ST, u.exponent)
    IN  Cast(ST, BitOr(result, Shl(ST, exp_value, f.exp_offset)))

\* rounded_mant = round_mantissa(...); result |= (mant_value << mant_offset)
pack_mantissa(f, RP, result, u) ==
    LET ST == storage_type(f)
        rounded_mant == round_mantissa(f, RP, u.mantissa, u.sign)
        mant_value == Cast(ST, rounded_mant)
    IN  Cast(ST, BitOr(result, Shl(ST, mant_value, f.mant_offset)))

\* What a call pack<Format, RoundingPolicy>(unpacked) may return: the value
\* of pack, unless a field's offset is negative; then value << offset is
\* undefined for that field, and result is the OR of the fields whose shift
\* is defined with whatever the others left.
pack_outcomes(f, RP, u) ==
    IF NonNegativeOffsets(f) THEN {pack(f, RP, u)}
    ELSE LET ST == storage_type(f)
             sign_value == Cast(ST, IF u.sign THEN 1 ELSE 0)
             exp_value == Cast(ST, u.exponent)
             mant_value == Cast(ST, round_mantissa(f, RP, u.mantissa, u.sign))
             sign_term == IF f.sign_offset >= 0
                          THEN Shl(ST, sign_value, f.sign_offset) ELSE 0
             exp_term == IF f.exp_offset >= 0
                         THEN Shl(ST, exp_value, f.exp_offset) ELSE 0
             mant_term == IF f.mant_offset >= 0
                          THEN Shl(ST, mant_value, f.mant_offset) ELSE 0
             defined == BitOr(BitOr(sign_term, exp_term), mant_term)
         IN  { Cast(ST, BitOr(defined, x)) :
                 x \in UndefinedValues(ST, f.total_bits) }

----------------------------------------------------------------------------
(* Field geometry used by the tests and by the properties                  *)

\* ((storage_type{1} << width) - 1) << offset, as in test_identity_exhaustive
FieldMask(width, offset) == (Pow2(width) - 1) * Pow2(offset)

\* significant_mask of test_identity_exhaustive / test_roundtrip_identity
significant_mask(f) ==
    BitOr(BitOr(FieldMask(f.sign_bits, f.sign_offset),
                FieldMask(f.exp_bits, f.exp_offset)),
          FieldMask(f.mant_bits, f.mant_offset))

\* The raw content of a field of a storage value.
Field(b, offset, width) == Shr(b, offset) % Pow2(width)

----------------------------------------------------------------------------
(* Native-float oracle: tests/helpers/test_float_oracle.hpp                *)
(*                                                                         *)
(* A native float is the dyadic rational (-1)^sign * m * 2^e, kept as the  *)
(* record [sign, m, e]; m = 0 is a zero, which keeps its sign.  Every      *)
(* value the oracle computes for a format of at most 8 bits has fewer than *)
(* 24 significant bits and an exponent inside the normal range of          *)
(* binary32, so the float operations of the source are exact on it.        *)

\* using DefaultRoundingPolicy = TowardZero
DefaultRoundingPolicy == "TowardZero"

RECURSIVE HighBit(_)
\* The position of the leading 1 of m >= 1: std::frexp's exponent less 1.
HighBit(m) == IF m <= 1 THEN 0 ELSE 1 + HighBit(m \div 2)

\* std::isnan(native) || std::isinf(native): the product mantissa_value *
\* 2^true_exp of two finite floats is infinite when it exceeds the largest
\* binary32 exponent, and never NaN.
native_isnan_or_isinf(v) == v.m # 0 /\ v.e + HighBit(v.m) > 127

\* to_native_float<Format>(bits)
to_native_float(f, b) ==
    LET unp == unpack(f, DefaultRoundingPolicy, b)
        biased_exp == unp.exponent
        guard_shift == guard_bits(DefaultRoundingPolicy)
        mant_int_type == uint_t(f.mant_bits + 1, f.type_policy)
        mant_int == Cast(mant_int_type, Shr(unp.mantissa, guard_shift))
        stored == Cast(mant_int_type,
                       BitAnd(mant_int, LowMask(mant_int_type, f.mant_bits)))
        with_one == Cast(mant_int_type,
                         BitOr(stored, Shl(mant_int_type, 1, f.mant_bits)))
        significand == IF ~f.has_implicit_bit THEN mant_int
                       ELSE IF biased_exp = 0 THEN stored ELSE with_one
        true_exp == IF biased_exp = 0 THEN 1 - exp_bias(f)
                    ELSE biased_exp - exp_bias(f)
    IN  [sign |-> unp.sign, m |-> significand, e |-> true_exp - f.mant_bits]

\* from_native_float<Format, RoundingPolicy>(value)
from_native_float(f, RP, v) ==
    LET ST == storage_type(f)
        sign_only == IF v.sign THEN Cast(ST, BitOr(0, Shl(ST, 1, f.sign_offset)))
                     ELSE 0
        \* frexp, then mantissa_frac *= 2 and exp_frexp -= 1:
        \* value = (m / 2^p) * 2^exp_frexp with m / 2^p in [1, 2)
        p == HighBit(v.m)
        exp_frexp == v.e + p
        max_biased_exp == Pow2(f.exp_bits) - 1
        max_true_exp == max_biased_exp - exp_bias(f)
        min_true_exp == 1 - exp_bias(f)
        saturated ==
            Cast(ST, BitOr(Cast(ST, BitOr(sign_only,
                                          Shl(ST, Cast(ST, max_biased_exp - 1),
                                              f.exp_offset))),
                           Shl(ST, LowMask(ST, f.mant_bits), f.mant_offset)))
        biased_exp == exp_frexp + exp_bias(f)
        total_mant_bits == f.mant_bits + guard_bits(RP)
        \* static_cast<uint32_t>((mantissa_frac - 1) * scale + 0.5f)
        mantissa_int ==
            ((2 * (v.m - Pow2(p)) * Pow2(total_mant_bits)) + Pow2(p))
                \div Pow2(p + 1)
        with_implicit == IF f.has_implicit_bit
                         THEN BitOr(mantissa_int, Pow2(total_mant_bits))
                         ELSE mantissa_int
    IN  IF v.m = 0 THEN sign_only
        ELSE IF exp_frexp > max_true_exp THEN saturated
        ELSE IF exp_frexp < min_true_exp THEN sign_only
        ELSE pack(f, RP, [sign |-> v.sign,
                          exponent |-> Cast(exponent_type(f), biased_exp),
                          mantissa |-> Cast(mantissa_type(f, RP),
                                            with_implicit)])

\* is_zero<Format>(bits)
is_zero(f, b) ==
    LET unp == unpack(f, DefaultRoundingPolicy, b)
    IN  unp.exponent = 0 /\ unp.mantissa = 0

----------------------------------------------------------------------------
(* Instantiations and arguments                                            *)

\* The bit positions a field occupies.
FieldBitsOf(offset, width) == offset..(offset + width - 1)

\* No bit position belongs to two fields.
FieldsDisjoint(f) ==
    /\ FieldBitsOf(f.sign_offset, f.sign_bits)
         \cap FieldBitsOf(f.exp_offset, f.exp_bits) = {}
    /\ FieldBitsOf(f.sign_offset, f.sign_bits)
         \cap FieldBitsOf(f.mant_offset, f.mant_bits) = {}
    /\ FieldBitsOf(f.exp_offset, f.exp_bits)
         \cap FieldBitsOf(f.mant_offset, f.mant_bits) = {}

\* Every descriptor that compiles and has no negative offset, with
\*   - at most MaxTotalBits bits and fields that do not overlap, or
\*   - at most MaxOverlapBits bits and fields placed anywhere,
\* under every numeric-width policy.
NonNegativeFormats ==
    { [g EXCEPT !.has_implicit_bit = imp, !.type_policy = tp] :
        g \in { f \in [sign_bits : 1..MaxTotalBits,
                       sign_offset : 0..MaxTotalBits,
                       exp_bits : 1..MaxTotalBits,
                       exp_offset : 0..MaxTotalBits,
                       mant_bits : 1..MaxTotalBits,
                       mant_offset : 0..MaxTotalBits,
                       total_bits : 3..MaxTotalBits,
                       has_implicit_bit : {TRUE}, ExponentBias : {-1},
                       type_policy : {DefaultTypeSelectionPolicy(FALSE)}] :
                  /\ ValidDescriptor(f)
                  /\ FieldsDisjoint(f) \/ f.total_bits <= MaxOverlapBits },
        imp \in BOOLEAN, tp \in TypePolicies }

\* Descriptors with a negative offset, which compile as well (no
\* static_assert reads an offset alone): three fields of one bit in three
\* bits, each at any offset from -MaxNegative to 2, at least one of them
\* negative, with an implicit bit and the default numeric-width policy.
NegativeOffsetFormats ==
    { f \in { FormatDescriptor(1, so, 1, eo, 1, mo, 3, TRUE, -1,
                               DefaultTypeSelectionPolicy(c)) :
                so \in (-MaxNegative)..2, eo \in (-MaxNegative)..2,
                mo \in (-MaxNegative)..2, c \in BOOLEAN } :
        ValidDescriptor(f) /\ ~NonNegativeOffsets(f) }

\* The small descriptors that compile.
SmallFormats == NonNegativeFormats \cup NegativeOffsetFormats

\* The types a format and its unpacked representations are made of.
MemberTypes(f) ==
    <<storage_type(f), exponent_type(f), mantissa_storage_type(f),
      mantissa_type(f, "TowardZero"), mantissa_type(f, "ToNearestTiesToEven")>>

\* The formats of F on every build: a format is instantiated again with
\* another <cstdint> where that gives one of its types another width.
AcrossBuilds(F) ==
    F \cup { g \in { [f EXCEPT !.type_policy.cstdint = p] :
                       f \in F, p \in CStdInts } :
               MemberTypes(g)
                 # MemberTypes([g EXCEPT !.type_policy.cstdint = "minimal"]) }

\* The formats the tests instantiate, with the default numeric-width policy.
ReferenceFormats ==
    { fp8_e5m2(c) : c \in BOOLEAN } \cup { fp8_e4m3(c) : c \in BOOLEAN }
    \cup { PaddedFormat(c) : c \in BOOLEAN }

Formats == AcrossBuilds(SmallFormats \cup ReferenceFormats)

\* Formats for direct calls of round_mantissa, which reads only mant_bits,
\* has_implicit_bit and type_policy of its Format.
RoundFormats ==
    { FormatDescriptor(1, 1 + m, 1, m, m, 0, 2 + m, imp, -1, tp) :
        m \in 1..MaxMantBits, imp \in BOOLEAN, tp \in TypePolicies }
    \cup { fp8_e5m2(c) : c \in BOOLEAN } \cup { fp8_e4m3(c) : c \in BOOLEAN }

\* Every value of total_bits bits (the loops of the exhaustive tests).
StorageValues(f) == 0..(Pow2(f.total_bits) - 1)

\* Every wide mantissa of mantissa_bits bits.
WideMantissas(f, RP) == 0..(Pow2(mantissa_bits(f, RP)) - 1)

\* Every UnpackedFloat whose exponent has exp_bits bits and whose mantissa
\* has mantissa_bits bits.
UnpackedFloats(f, RP) ==
    [sign : BOOLEAN, exponent : 0..(Pow2(f.exp_bits) - 1),
     mantissa : WideMantissas(f, RP)]

\* Every value an exponent member can be given that has at most
\* exp_bits + MaxExcessBits bits: pack does not require it to fit exp_bits.
RawExponents(f) ==
    LET w == exponent_type(f).width
        n == IF w < f.exp_bits + MaxExcessBits THEN w
             ELSE f.exp_bits + MaxExcessBits
    IN  0..(Pow2(n) - 1)

\* UnpackedFloats as a caller can fill them in.
RawUnpackedFloats(f, RP) ==
    [sign : BOOLEAN, exponent : RawExponents(f),
     mantissa : WideMantissas(f, RP)]

\* Every value a mantissa member can be given that has at most
\* mantissa_bits + MaxExcessBits bits: its type may be wider than
\* mantissa_bits (the standard integer types are).
RawMantissas(f, RP) ==
    LET w == mantissa_type(f, RP).width
        n == IF w < mantissa_bits(f, RP) + MaxExcessBits THEN w
             ELSE mantissa_bits(f, RP) + MaxExcessBits
    IN  0..(Pow2(n) - 1)

\* UnpackedFloats with an exponent of exp_bits bits and any such mantissa.
WideUnpackedFloats(f, RP) ==
    [sign : BOOLEAN, exponent : 0..(Pow2(f.exp_bits) - 1),
     mantissa : RawMantissas(f, RP)]

\* The descriptors whose fields are pairwise disjoint.
DisjointFormats == { f \in SmallFormats : FieldsDisjoint(f) }

\* The descriptors of at most MaxOverlapBits bits.
RawFormats == { f \in SmallFormats : f.total_bits <= MaxOverlapBits }

\* UnpackedFloat<Format, RoundingPolicy> result{};
NoUnpacked == [sign |-> FALSE, exponent |-> 0, mantissa |-> 0]

\* float native = 0.0f;
NoNative == [sign |-> FALSE, m |-> 0, e |-> 0]

\* No thread has been started.
NoCalls == << >>
NoFrames == << >>

\* No alias has been written; no type has been selected.
NoRequest ==
    [Bits |-> 0, signed |-> FALSE,
     Policy |-> DefaultTypeSelectionPolicy(FALSE)]
NoType == [kind |-> "none", size |-> 0, width |-> 0]

InitWith(F) ==
    /\ fmt \in F
    /\ RoundingPolicy \in RoundingPolicies
    /\ pc = "start"
    /\ bits = 0
    /\ unpacked = NoUnpacked
    /\ packed = 0
    /\ wide_mantissa = 0
    /\ is_negative = FALSE
    /\ rounded = 0
    /\ native = NoNative
    /\ calls = NoCalls
    /\ frames = NoFrames
    /\ request = NoRequest
    /\ selected = NoType
    /\ bias_supplied = FALSE
    /\ bias = 0
    /\ standard = FALSE

----------------------------------------------------------------------------
(* The calls                                                               *)

\* auto unpacked = unpack<Format, RoundingPolicy>(bits);
CallUnpack(b) ==
    /\ pc = "start"
    /\ bits' = b
    /\ unpacked' \in unpack_outcomes(fmt, RoundingPolicy, b)
    /\ pc' = "unpacked"
    /\ UNCHANGED <<fmt, RoundingPolicy, packed, wide_mantissa, is_negative,
                   rounded, native, request, selected, calls, frames,
                   bias_supplied, bias, standard>>

\* auto repacked = pack<Format, RoundingPolicy>(unpacked);
Repack ==
    /\ pc = "unpacked"
    /\ packed' \in pack_outcomes(fmt, RoundingPolicy, unpacked)
    /\ pc' = "repacked"
    /\ UNCHANGED <<fmt, RoundingPolicy, bits, unpacked, wide_mantissa,
                   is_negative, rounded, native, request, selected, calls,
                   frames, bias_supplied, bias, standard>>

\* A caller fills in an UnpackedFloat and packs it:
\* return pack<Format, RoundingPolicy>(unpacked);
CallPack(u) ==
    /\ pc = "start"
    /\ unpacked' = u
    /\ packed' \in pack_outcomes(fmt, RoundingPolicy, u)
    /\ pc' = "packed"
    /\ UNCHANGED <<fmt, RoundingPolicy, bits, wide_mantissa, is_negative,
                   rounded, native, request, selected, calls, frames,
                   bias_supplied, bias, standard>>

\* auto result = RoundingPolicy::round_mantissa<Format>(wide_mant, neg);
CallRoundMantissa(w, neg) ==
    /\ pc = "start"
    /\ wide_mantissa' = w
    /\ is_negative' = neg
    /\ rounded' = round_mantissa(fmt, RoundingPolicy, w, neg)
    /\ pc' = "rounded"
    /\ UNCHANGED <<fmt, RoundingPolicy, bits, unpacked, packed, native,
                   request, selected, calls, frames, bias_supplied, bias,
                   standard>>

----------------------------------------------------------------------------
(* Specifications                                                          *)

\* unpack of every storage value, then pack of the result.
Init == InitWith(Formats)

Next ==
    \/ pc = "start" /\ \E b \in StorageValues(fmt) : CallUnpack(b)
    \/ Repack

Spec == Init /\ [][Next]_vars

\* pack of every UnpackedFloat of the format.
InitPack == InitWith(SmallFormats)

NextPack ==
    pc = "start" /\ \E u \in UnpackedFloats(fmt, RoundingPolicy) : CallPack(u)

SpecPack == InitPack /\ [][NextPack]_vars

\* pack of UnpackedFloats whose exponent need not fit exp_bits.
InitPackRaw == InitWith(RawFormats)

NextPackRaw ==
    pc = "start" /\ \E u \in RawUnpackedFloats(fmt, RoundingPolicy) : CallPack(u)

SpecPackRaw == InitPackRaw /\ [][NextPackRaw]_vars

\* pack of UnpackedFloats whose mantissa need not fit mantissa_bits.
InitPackWide == InitWith(DisjointFormats)

NextPackWide ==
    pc = "start"
      /\ \E u \in WideUnpackedFloats(fmt, RoundingPolicy) : CallPack(u)

SpecPackWide == InitPackWide /\ [][NextPackWide]_vars

\* round_mantissa of every wide mantissa, called directly.
InitRound == InitWith(RoundFormats)

NextRound ==
    pc = "start" /\ \E w \in WideMantissas(fmt, RoundingPolicy), neg \in BOOLEAN :
                       CallRoundMantissa(w, neg)

SpecRound == InitRound /\ [][NextRound]_vars

\* The formats of test_native_float_roundtrip.
OracleFormats ==
    { fp8_e5m2(c) : c \in BOOLEAN } \cup { fp8_e4m3(c) : c \in BOOLEAN }

\* float native = to_native_float<Format>(bits);
CallToNativeFloat(b) ==
    /\ pc = "start"
    /\ bits' = b
    /\ native' = to_native_float(fmt, b)
    /\ pc' = "native"
    /\ UNCHANGED <<fmt, RoundingPolicy, unpacked, packed, wide_mantissa,
                   is_negative, rounded, request, selected, calls, frames,
                   bias_supplied, bias, standard>>

\* if (std::isnan(native) || std::isinf(native)) continue;
\* storage_type converted = from_native_float<Format, RoundingPolicy>(native);
CallFromNativeFloat ==
    /\ pc = "native"
    /\ ~native_isnan_or_isinf(native)
    /\ packed' = from_native_float(fmt, RoundingPolicy, native)
    /\ pc' = "converted"
    /\ UNCHANGED <<fmt, RoundingPolicy, bits, unpacked, wide_mantissa,
                   is_negative, rounded, native, request, selected, calls,
                   frames, bias_supplied, bias, standard>>

\* The loop body of test_native_float_roundtrip for every storage value.
InitOracle == InitWith(OracleFormats)

NextOracle ==
    \/ pc = "start" /\ \E b \in StorageValues(fmt) : CallToNativeFloat(b)
    \/ CallFromNativeFloat

SpecOracle == InitOracle /\ [][NextOracle]_vars

\* uint_t<Bits, Policy> and int_t<Bits, Policy> written for any width from
\* 0 to MaxRequestBits under every policy on every build.
TypeRequests ==
    [Bits : 0..MaxRequestBits, signed : BOOLEAN,
     Policy : PlatformTypePolicies]

InitSelect ==
    /\ request \in TypeRequests
    /\ selected = NoType
    /\ fmt = fp8_e5m2(request.Policy.has_bitint_support)
    /\ RoundingPolicy = DefaultRoundingPolicy
    /\ pc = "requested"
    /\ bits = 0
    /\ unpacked = NoUnpacked
    /\ packed = 0
    /\ wide_mantissa = 0
    /\ is_negative = FALSE
    /\ rounded = 0
    /\ native = NoNative
    /\ calls = NoCalls
    /\ frames = NoFrames
    /\ bias_supplied = FALSE
    /\ bias = 0
    /\ standard = FALSE

\* The alias is instantiated: select_unsigned<Bits>() or select_signed<Bits>()
\* of the policy is evaluated; a failing static_assert is a compile error.
Select ==
    /\ pc = "requested"
    /\ IF request.signed
       THEN IF select_signed_well_formed(request.Bits, request.Policy)
            THEN selected' = int_t(request.Bits, request.Policy)
                 /\ pc' = "selected"
            ELSE selected' = selected /\ pc' = "rejected"
       ELSE IF select_unsigned_well_formed(request.Bits, request.Policy)
            THEN selected' = uint_t(request.Bits, request.Policy)
                 /\ pc' = "selected"
            ELSE selected' = selected /\ pc' = "rejected"
    /\ UNCHANGED <<fmt, RoundingPolicy, bits, unpacked, packed, wide_mantissa,
                   is_negative, rounded, native, request, calls, frames,
                   bias_supplied, bias, standard>>

NextSelect == Select

SpecSelect == InitSelect /\ [][NextSelect]_vars

----------------------------------------------------------------------------
(* Concurrent calls                                                        *)
(*                                                                         *)
(* Each thread runs the body of the round-trip loop on its own argument:   *)
(* unpack, then pack (which calls round_mantissa).  The statements of the  *)
(* two functions are steps; steps of different threads interleave.  The    *)
(* only object a statement writes is the local `result` of its function,   *)
(* which has automatic storage: every call has a frame of its own.         *)

Threads == 1..MaxThreads

\* Mutant: `result` is one object shared by every call (static storage).
Frame_static(t) == 1

\* The frame holding the locals of the call thread t is executing.
Frame(t) == t

\* The format every thread instantiates: IEEE_Format<1, 1>.
ConcurrentFormats ==
    { IEEE_Format(1, 1, DefaultTypeSelectionPolicy(c)) : c \in BOOLEAN }

NoFrame == [unpacked |-> NoUnpacked, packed |-> 0]

InitConcurrent ==
    /\ fmt \in ConcurrentFormats
    /\ RoundingPolicy \in RoundingPolicies
    /\ calls \in [Threads -> [bits : StorageValues(fmt), at : {"unpack_sign"},
                              unpacked : {NoUnpacked}, packed : {0}]]
    /\ frames = [t \in Threads |-> NoFrame]
    /\ pc = "running"
    /\ bits = 0
    /\ unpacked = NoUnpacked
    /\ packed = 0
    /\ wide_mantissa = 0
    /\ is_negative = FALSE
    /\ rounded = 0
    /\ native = NoNative
    /\ request = NoRequest
    /\ selected = NoType
    /\ bias_supplied = FALSE
    /\ bias = 0
    /\ standard = FALSE

\* What no step of a thread changes.
Shared ==
    <<fmt, RoundingPolicy, pc, bits, unpacked, packed, wide_mantissa,
      is_negative, rounded, native, request, selected, bias_supplied, bias,
      standard>>

\* UnpackedFloat result{}; result.sign = ...
UnpackSign(t) ==
    /\ calls[t].at = "unpack_sign"
    /\ frames' = [frames EXCEPT ![Frame(t)].unpacked =
                     [NoUnpacked EXCEPT !.sign = unpack_sign(fmt, calls[t].bits)]]
    /\ calls' = [calls EXCEPT ![t].at = "unpack_exponent"]
    /\ UNCHANGED Shared

\* result.exponent = ...
UnpackExponent(t) ==
    /\ calls[t].at = "unpack_exponent"
    /\ frames' = [frames EXCEPT ![Frame(t)].unpacked.exponent =
                     unpack_exponent(fmt, calls[t].bits)]
    /\ calls' = [calls EXCEPT ![t].at = "unpack_mantissa"]
    /\ UNCHANGED Shared

\* is_normal = (result.exponent != 0); result.mantissa = ...; return result
UnpackMantissa(t) ==
    /\ calls[t].at = "unpack_mantissa"
    /\ LET result == frames[Frame(t)].unpacked
           mantissa == unpack_mantissa(fmt, RoundingPolicy, result.exponent,
                                       unpack_mant_stored(fmt, calls[t].bits))
       IN  /\ frames' = [frames EXCEPT ![Frame(t)].unpacked.mantissa = mantissa]
           /\ calls' = [calls EXCEPT
                          ![t].unpacked = [result EXCEPT !.mantissa = mantissa],
                          ![t].at = "pack_sign"]
    /\ UNCHANGED Shared

\* storage_type result = 0; result |= sign
PackSign(t) ==
    /\ calls[t].at = "pack_sign"
    /\ frames' = [frames EXCEPT ![Frame(t)].packed =
                     pack_sign(fmt, 0, calls[t].unpacked)]
    /\ calls' = [calls EXCEPT ![t].at = "pack_exponent"]
    /\ UNCHANGED Shared

\* result |= exponent
PackExponent(t) ==
    /\ calls[t].at = "pack_exponent"
    /\ frames' = [frames EXCEPT ![Frame(t)].packed =
                     pack_exponent(fmt, frames[Frame(t)].packed,
                                   calls[t].unpacked)]
    /\ calls' = [calls EXCEPT ![t].at = "pack_mantissa"]
    /\ UNCHANGED Shared

\* rounded_mant = round_mantissa(...); result |= mantissa; return result
PackMantissa(t) ==
    /\ calls[t].at = "pack_mantissa"
    /\ LET result == pack_mantissa(fmt, RoundingPolicy,
                                   frames[Frame(t)].packed, calls[t].unpacked)
       IN  /\ frames' = [frames EXCEPT ![Frame(t)].packed = result]
           /\ calls' = [calls EXCEPT ![t].packed = result, ![t].at = "done"]
    /\ UNCHANGED Shared

NextConcurrent ==
    \E t \in Threads :
        \/ UnpackSign(t)
        \/ UnpackExponent(t)
        \/ UnpackMantissa(t)
        \/ PackSign(t)
        \/ PackExponent(t)
        \/ PackMantissa(t)

SpecConcurrent == InitConcurrent /\ [][NextConcurrent]_vars

----------------------------------------------------------------------------
(* Declaring and instantiating a descriptor                                *)

\* FormatDescriptor<...> written with any small integers as geometry and no
\* ExponentBias argument.
GeometryDeclarations ==
    [sign_bits : (-MaxNegative)..(MaxDeclBits - 1),
     sign_offset : (-MaxNegative)..MaxDeclBits,
     exp_bits : (-MaxNegative)..(MaxDeclBits - 1),
     exp_offset : (-MaxNegative)..MaxDeclBits,
     mant_bits : (-MaxNegative)..(MaxDeclBits - 1),
     mant_offset : (-MaxNegative)..MaxDeclBits,
     total_bits : 0..MaxDeclBits, has_implicit_bit : {TRUE},
     ExponentBias : {-1},
     type_policy : { DefaultTypeSelectionPolicy(c) : c \in BOOLEAN }]

\* FormatDescriptor<...> written with an ExponentBias argument.
BiasDeclarations ==
    { FormatDescriptor(1, e + 1, e, 1, 1, 0, e + 2, imp, k,
                       DefaultTypeSelectionPolicy(c)) :
        e \in 1..MaxMantBits, imp \in BOOLEAN,
        k \in (-MaxBias)..MaxBias, c \in BOOLEAN }

\* IEEE_Format<ExpBits, MantBits> at the edges of int and of the
\* numeric-width provider: the widest automatic bias (31) and the first
\* that overflows (32); 65, 128 and 129 bits in total.
WideIEEEArguments == { <<31, 8>>, <<32, 8>>, <<11, 53>>, <<15, 112>>, <<15, 113>> }

\* IEEE_Format<ExpBits, MantBits, TypePolicy> declarations: small ones, the
\* five named formats, and the wide ones.
IEEEDeclarations ==
    { IEEE_Format(e, m, tp) :
        e \in 1..MaxMantBits, m \in 1..MaxMantBits, tp \in TypePolicies }
    \cup { fp8_e5m2(c) : c \in BOOLEAN } \cup { fp8_e4m3(c) : c \in BOOLEAN }
    \cup { fp16_e5m10(c) : c \in BOOLEAN } \cup { fp32_e8m23(c) : c \in BOOLEAN }
    \cup { fp64_e11m52(c) : c \in BOOLEAN }
    \cup { IEEE_Format(a[1], a[2], tp) :
              a \in WideIEEEArguments, tp \in TypePolicies }

\* A declaration is the descriptor's template arguments, and whether the
\* ExponentBias argument was written (it defaults to -1).
InitDescriptor ==
    /\ \/ fmt \in GeometryDeclarations /\ bias_supplied = FALSE
       \/ fmt \in IEEEDeclarations /\ bias_supplied = FALSE
       \/ fmt \in BiasDeclarations /\ bias_supplied = TRUE
    /\ RoundingPolicy = "TowardZero"
    /\ pc = "declared"
    /\ bits = 0
    /\ unpacked = NoUnpacked
    /\ packed = 0
    /\ wide_mantissa = 0
    /\ is_negative = FALSE
    /\ rounded = 0
    /\ native = NoNative
    /\ calls = NoCalls
    /\ frames = NoFrames
    /\ request = NoRequest
    /\ selected = NoType
    /\ bias = 0
    /\ standard = FALSE

\* The class template is instantiated: its static_asserts are checked and
\* its member type aliases are formed.  A failure is a compile error, after
\* which nothing of the descriptor can be used.
Instantiate ==
    /\ pc = "declared"
    /\ pc' = IF ValidDescriptor(fmt) /\ member_types_well_formed(fmt)
             THEN "start" ELSE "rejected"
    /\ UNCHANGED <<fmt, RoundingPolicy, bits, unpacked, packed, wide_mantissa,
                   is_negative, rounded, native, request, selected, calls,
                   frames, bias_supplied, bias, standard>>

\* Format::exp_bias is read; its initializer is instantiated only now.
ReadExpBias ==
    /\ pc = "start"
    /\ IF exp_bias_well_formed(fmt)
       THEN bias' = exp_bias(fmt) /\ pc' = "bias_read"
       ELSE bias' = bias /\ pc' = "ill_formed"
    /\ UNCHANGED <<fmt, RoundingPolicy, bits, unpacked, packed, wide_mantissa,
                   is_negative, rounded, native, request, selected, calls,
                   frames, bias_supplied, standard>>

\* Format::is_standard_layout() is called.
CallIsStandardLayout ==
    /\ pc = "start"
    /\ standard' = is_standard_layout(fmt)
    /\ pc' = "layout_read"
    /\ UNCHANGED <<fmt, RoundingPolicy, bits, unpacked, packed, wide_mantissa,
                   is_negative, rounded, native, request, selected, calls,
                   frames, bias_supplied, bias>>

NextDescriptor ==
    \/ Instantiate
    \/ ReadExpBias
    \/ CallIsStandardLayout

SpecDescriptor == InitDescriptor /\ [][NextDescriptor]_vars

\* unpack and pack in descriptors declared with an exponent bias.
InitBiased == InitWith(BiasDeclarations)

NextBiased ==
    \/ pc = "start" /\ \E b \in StorageValues(fmt) : CallUnpack(b)
    \/ Repack
    \/ pc = "start"
         /\ \E u \in UnpackedFloats(fmt, RoundingPolicy) : CallPack(u)

SpecBiased == InitBiased /\ [][NextBiased]_vars

----------------------------------------------------------------------------
(* Properties of unpack followed by pack (Spec)                            *)
(*                                                                         *)
(* The properties of unpack and pack are stated for descriptors of the     *)
(* documented geometry, whose offsets are not negative.  A descriptor with *)
(* a negative offset is the subject of C14; a call in it shifts by a       *)
(* negative count and nothing is promised of its result.                   *)

\* The padding positions: the bits of a value no field covers.
PaddingOf(f, v) == v - BitAnd(v, significant_mask(f))

\* C1: round-trip identity.  For every descriptor that passes the
\* construction checks, each rounding policy and every storage value b,
\* pack(unpack(b)) equals b on every bit of the sign, exponent and mantissa
\* fields.
C1_RoundTripIdentity ==
    (pc = "repacked" /\ NonNegativeOffsets(fmt)) =>
        BitAnd(packed, significant_mask(fmt))
            = BitAnd(bits, significant_mask(fmt))

\* The bit positions of a storage value that no field covers.
PaddingPositions(f) ==
    { i \in 0..(f.total_bits - 1) : Bit(significant_mask(f), i) = 0 }

RECURSIVE SumPow2(_)
\* The value whose set bits are the positions in S.
SumPow2(S) ==
    IF S = {} THEN 0
    ELSE LET i == CHOOSE x \in S : TRUE
         IN  Pow2(i) + SumPow2(S \ {i})

\* Every storage value that agrees with b on all bits of the sign, exponent
\* and mantissa fields: the field bits of b with any padding bits.
SameFieldBits(f, b) ==
    { BitAnd(b, significant_mask(f)) + SumPow2(S) :
        S \in SUBSET PaddingPositions(f) }

\* C3: unpack ignores padding.  Two storage values that agree on every bit
\* of the sign, exponent and mantissa fields unpack to the same
\* UnpackedFloat.
C3_UnpackIgnoresPadding ==
    (pc = "unpacked" /\ NonNegativeOffsets(fmt)) =>
        \A b2 \in SameFieldBits(fmt, bits) :
            unpack(fmt, RoundingPolicy, b2) = unpacked

\* C3 witness: a value with a padding bit set has been unpacked, and it
\* gave what the same value with its padding cleared gives.
C3_Witness ==
    /\ pc = "unpacked"
    /\ NonNegativeOffsets(fmt)
    /\ PaddingOf(fmt, bits) # 0
    /\ BitAnd(bits, significant_mask(fmt)) # 0
    /\ unpacked = unpack(fmt, RoundingPolicy,
                         BitAnd(bits, significant_mask(fmt)))

\* C4: unpack field extraction.  sign is true iff the sign field is not
\* zero, exponent is the raw exponent field, and the stored part of the
\* mantissa (bits guard_bits .. guard_bits + mant_bits - 1) is the raw
\* mantissa field; 0xB3 in the 1-5-2 layout gives (true, 12, 3) and 0xB5 in
\* the 1-4-3 layout gives (true, 6, 5).
C4_FieldExtraction ==
    (pc = "unpacked" /\ NonNegativeOffsets(fmt)) =>
        /\ unpacked.sign
             = (Field(bits, fmt.sign_offset, fmt.sign_bits) # 0)
        /\ unpacked.exponent = Field(bits, fmt.exp_offset, fmt.exp_bits)
        /\ Field(unpacked.mantissa, guard_bits(RoundingPolicy), fmt.mant_bits)
             = Field(bits, fmt.mant_offset, fmt.mant_bits)
        /\ (fmt \in {fp8_e5m2(TRUE), fp8_e5m2(FALSE)} /\ bits = 179) =>
             /\ unpacked.sign = TRUE
             /\ unpacked.exponent = 12
             /\ Field(unpacked.mantissa, guard_bits(RoundingPolicy), 2) = 3
        /\ (fmt \in {fp8_e4m3(TRUE), fp8_e4m3(FALSE)} /\ bits = 181) =>
             /\ unpacked.sign = TRUE
             /\ unpacked.exponent = 6
             /\ Field(unpacked.mantissa, guard_bits(RoundingPolicy), 3) = 5

\* C4 witness: 0xB3 has been unpacked in the 1-5-2 layout.
C4_Witness ==
    /\ pc = "unpacked"
    /\ fmt = fp8_e5m2(TRUE)
    /\ bits = 179
    /\ unpacked.exponent = 12

\* C5: implicit-bit correctness.  For a format with an implicit bit, bit
\* mant_bits + guard_bits of the unpacked mantissa is 1 iff the raw exponent
\* field is not zero.
C5_ImplicitBit ==
    (pc = "unpacked" /\ NonNegativeOffsets(fmt) /\ fmt.has_implicit_bit) =>
        ( Bit(unpacked.mantissa, fmt.mant_bits + guard_bits(RoundingPolicy)) = 1
          <=> Field(bits, fmt.exp_offset, fmt.exp_bits) # 0 )

\* C5 witness: a denormal (exponent field zero, mantissa field not zero) has
\* been unpacked in a format with an implicit bit, and the bit is clear.
C5_Witness ==
    /\ pc = "unpacked"
    /\ NonNegativeOffsets(fmt)
    /\ fmt.has_implicit_bit
    /\ Field(bits, fmt.exp_offset, fmt.exp_bits) = 0
    /\ Field(bits, fmt.mant_offset, fmt.mant_bits) # 0
    /\ Bit(unpacked.mantissa, fmt.mant_bits + guard_bits(RoundingPolicy)) = 0

\* C6: guard bits start clean.  The low guard_bits bits of the unpacked
\* mantissa are zero, for both rounding policies.
C6_GuardBitsClean ==
    (pc = "unpacked" /\ NonNegativeOffsets(fmt)) =>
        unpacked.mantissa % Pow2(guard_bits(RoundingPolicy)) = 0

\* C6 witness: a value with an all-ones mantissa field has been unpacked
\* under ToNearestTiesToEven (three guard bits).
C6_Witness ==
    /\ pc = "unpacked"
    /\ NonNegativeOffsets(fmt)
    /\ RoundingPolicy = "ToNearestTiesToEven"
    /\ Field(bits, fmt.mant_offset, fmt.mant_bits) = Pow2(fmt.mant_bits) - 1
    /\ unpacked.mantissa >= 8

\* C20: the rounding policies agree on unpacked values.  For every storage
\* value b, pack<ToNearestTiesToEven>(unpack<ToNearestTiesToEven>(b)) equals
\* pack<TowardZero>(unpack<TowardZero>(b)).
C20_PoliciesAgree ==
    (pc = "repacked" /\ NonNegativeOffsets(fmt)) =>
        LET Other == IF RoundingPolicy = "TowardZero"
                     THEN "ToNearestTiesToEven" ELSE "TowardZero"
        IN  packed = pack(fmt, Other, unpack(fmt, Other, bits))

\* C20 witness: a value with an all-ones mantissa field has made the round
\* trip under ToNearestTiesToEven and came back with that field intact,
\* as it does under TowardZero.
C20_Witness ==
    /\ pc = "repacked"
    /\ NonNegativeOffsets(fmt)
    /\ RoundingPolicy = "ToNearestTiesToEven"
    /\ FieldsDisjoint(fmt)
    /\ Field(bits, fmt.mant_offset, fmt.mant_bits) = Pow2(fmt.mant_bits) - 1
    /\ Field(packed, fmt.mant_offset, fmt.mant_bits) = Pow2(fmt.mant_bits) - 1
    /\ packed = pack(fmt, "TowardZero", unpack(fmt, "TowardZero", bits))

\* C21: unpacked representation widths.  For every bit pattern, the
\* unpacked exponent lies in 0 .. 2^exp_bits - 1 and the unpacked mantissa
\* in 0 .. 2^(mant_bits + implicit + guard_bits) - 1; without an implicit
\* bit, no bit at or above position mant_bits + guard_bits is set.
C21_UnpackedWidths ==
    (pc = "unpacked" /\ NonNegativeOffsets(fmt)) =>
        /\ unpacked.exponent \in 0..(Pow2(fmt.exp_bits) - 1)
        /\ unpacked.mantissa
              \in 0..(Pow2(mantissa_bits(fmt, RoundingPolicy)) - 1)
        /\ ~fmt.has_implicit_bit =>
              Shr(unpacked.mantissa,
                  fmt.mant_bits + guard_bits(RoundingPolicy)) = 0

\* C21 witness: a value whose exponent and mantissa fields are all ones has
\* been unpacked in a format with an implicit bit on a standard integer
\* type wider than the mantissa, and both members are at their maximum.
C21_Witness ==
    /\ pc = "unpacked"
    /\ NonNegativeOffsets(fmt)
    /\ fmt.has_implicit_bit
    /\ mantissa_type(fmt, RoundingPolicy).width
          > mantissa_bits(fmt, RoundingPolicy)
    /\ unpacked.exponent = Pow2(fmt.exp_bits) - 1
    /\ unpacked.mantissa
          = Pow2(mantissa_bits(fmt, RoundingPolicy))
            - Pow2(guard_bits(RoundingPolicy))

\* One unpack-then-pack pass over a storage value.
Canonicalise(f, RP, b) == pack(f, RP, unpack(f, RP, b))

\* C27: canonicalisation is idempotent.  With c = pack(unpack(b)),
\* pack(unpack(c)) = c, and so is the value after a third pass.
C27_Idempotent ==
    (pc = "repacked" /\ NonNegativeOffsets(fmt)) =>
        /\ Canonicalise(fmt, RoundingPolicy, packed) = packed
        /\ Canonicalise(fmt, RoundingPolicy,
                        Canonicalise(fmt, RoundingPolicy, packed)) = packed

\* C27 witness: a value the first pass changes (it has a padding bit set,
\* or a sign field wider than one bit) has been canonicalised to a value
\* with a set sign, a non-zero exponent and a non-zero mantissa field.
C27_Witness ==
    /\ pc = "repacked"
    /\ NonNegativeOffsets(fmt)
    /\ packed # bits
    /\ unpacked.sign
    /\ unpacked.exponent # 0
    /\ Field(packed, fmt.mant_offset, fmt.mant_bits) # 0
    /\ FieldsDisjoint(fmt)

----------------------------------------------------------------------------
(* Properties of pack on any UnpackedFloat (SpecPack)                      *)

\* C2: canonical zero padding.  For every UnpackedFloat of the format and
\* rounding policy, every bit of pack(u) outside the sign, exponent and
\* mantissa fields is 0.
C2_CanonicalZeroPadding ==
    (pc = "packed" /\ NonNegativeOffsets(fmt)) => PaddingOf(fmt, packed) = 0

\* C11: the mantissa-overflow gap.  Under ToNearestTiesToEven, when the
\* stored mantissa bits are all ones and GRS >= 4 forces a round-up, the
\* exponent field of pack's result is the input exponent: it is not
\* incremented, and the result is not (exponent + 1, mantissa 0).  (Stated
\* for descriptors whose fields do not overlap.)
C11_OverflowGap ==
    (pc = "packed" /\ NonNegativeOffsets(fmt)
       /\ RoundingPolicy = "ToNearestTiesToEven"
       /\ FieldsDisjoint(fmt)
       /\ (unpacked.mantissa \div 8) % Pow2(fmt.mant_bits)
            = Pow2(fmt.mant_bits) - 1
       /\ unpacked.mantissa % 8 >= 4) =>
        /\ Field(packed, fmt.exp_offset, fmt.exp_bits) = unpacked.exponent
        /\ ~ (/\ Field(packed, fmt.exp_offset, fmt.exp_bits)
                   = (unpacked.exponent + 1) % Pow2(fmt.exp_bits)
              /\ Field(packed, fmt.mant_offset, fmt.mant_bits) = 0)

\* The bit positions at which two values differ.
DifferingBits(a, b, width) ==
    { i \in 0..(width - 1) : Bit(a, i) # Bit(b, i) }

\* C19: is_negative is unused.  round_mantissa gives the same result for
\* is_negative true and false, and two UnpackedFloats that differ only in
\* sign pack to values that differ only inside the sign field.
C19_IsNegativeUnused ==
    (pc = "packed" /\ NonNegativeOffsets(fmt)) =>
        LET flipped == [unpacked EXCEPT !.sign = ~unpacked.sign]
        IN  /\ round_mantissa(fmt, RoundingPolicy, unpacked.mantissa, TRUE)
                 = round_mantissa(fmt, RoundingPolicy, unpacked.mantissa, FALSE)
            /\ DifferingBits(packed, pack(fmt, RoundingPolicy, flipped),
                             storage_type(fmt).width)
                 \subseteq FieldBitsOf(fmt.sign_offset, fmt.sign_bits)

\* C19 witness: a negative value with a guard bit set, which a directed
\* rounding mode would round differently, has been packed under
\* ToNearestTiesToEven without an increment, and only its sign bit tells it
\* from the positive one.
C19_Witness ==
    /\ pc = "packed"
    /\ NonNegativeOffsets(fmt)
    /\ RoundingPolicy = "ToNearestTiesToEven"
    /\ FieldsDisjoint(fmt)
    /\ unpacked.sign
    /\ unpacked.mantissa % 8 = 1
    /\ Field(packed, fmt.mant_offset, fmt.mant_bits)
         = (unpacked.mantissa \div 8) % Pow2(fmt.mant_bits)
    /\ DifferingBits(packed,
                     pack(fmt, RoundingPolicy,
                          [unpacked EXCEPT !.sign = FALSE]),
                     storage_type(fmt).width) = {fmt.sign_offset}

\* The wide mantissa w with its implicit bit (bit mant_bits + guard_bits)
\* inverted.
FlipImplicitBit(f, RP, w) ==
    LET p == f.mant_bits + guard_bits(RP)
    IN  IF Bit(w, p) = 1 THEN w - Pow2(p) ELSE w + Pow2(p)

\* C29: pack discards the implicit bit.  In a format with an implicit bit,
\* two UnpackedFloats that differ only in the implicit bit of the mantissa
\* give the same round_mantissa result and the same pack output, whether or
\* not the implicit bit is consistent with the exponent.
C29_ImplicitBitDiscarded ==
    (pc = "packed" /\ NonNegativeOffsets(fmt) /\ fmt.has_implicit_bit) =>
        LET other == [unpacked EXCEPT !.mantissa =
                         FlipImplicitBit(fmt, RoundingPolicy, @)]
        IN  /\ round_mantissa(fmt, RoundingPolicy, other.mantissa, other.sign)
                = round_mantissa(fmt, RoundingPolicy, unpacked.mantissa,
                                 unpacked.sign)
            /\ pack(fmt, RoundingPolicy, other) = packed

\* C29 witness: under ToNearestTiesToEven, an UnpackedFloat with exponent 0
\* and the implicit bit set (inconsistent), whose stored bits round up, has
\* been packed on a standard integer type, leaving a non-zero mantissa
\* field and no trace of the implicit bit.
C29_Witness ==
    /\ pc = "packed"
    /\ NonNegativeOffsets(fmt)
    /\ fmt.has_implicit_bit
    /\ FieldsDisjoint(fmt)
    /\ RoundingPolicy = "ToNearestTiesToEven"
    /\ ~fmt.type_policy.has_bitint_support
    /\ unpacked.exponent = 0
    /\ Bit(unpacked.mantissa, fmt.mant_bits + 3) = 1
    /\ unpacked.mantissa % 8 = 5
    /\ Shr(unpacked.mantissa, 3) % Pow2(fmt.mant_bits) = 0
    /\ packed = Pow2(fmt.mant_offset)

----------------------------------------------------------------------------
(* Properties of pack on an UnpackedFloat filled in by a caller            *)
(* (SpecPackRaw)                                                           *)

\* C12: pack composition.  pack(u) is the bitwise OR of
\* (u.sign ? 1 : 0) << sign_offset, u.exponent << exp_offset and
\* round_mantissa(u.mantissa, u.sign) << mant_offset, as a value of the
\* storage type; the exponent is placed as given, also when it does not fit
\* exp_bits.
C12_PackComposition ==
    (pc = "packed" /\ NonNegativeOffsets(fmt)) =>
        packed =
            BitOr(BitOr((IF unpacked.sign THEN 1 ELSE 0) * Pow2(fmt.sign_offset),
                        unpacked.exponent * Pow2(fmt.exp_offset)),
                  round_mantissa(fmt, RoundingPolicy, unpacked.mantissa,
                                 unpacked.sign) * Pow2(fmt.mant_offset))
              % Pow2(storage_type(fmt).width)

\* C12 witness: an exponent one bit too wide for exp_bits has been packed,
\* and its top bit is in the result, above the exponent field.
C12_Witness ==
    /\ pc = "packed"
    /\ NonNegativeOffsets(fmt)
    /\ FieldsDisjoint(fmt)
    /\ ~unpacked.sign
    /\ unpacked.mantissa = 0
    /\ unpacked.exponent >= Pow2(fmt.exp_bits)
    /\ packed = unpacked.exponent * Pow2(fmt.exp_offset)

----------------------------------------------------------------------------
(* Properties of pack followed by unpack (SpecPackWide)                    *)

\* The UnpackedFloat u is canonical: its exponent has exp_bits bits, its
\* guard bits are zero and, in a format with an implicit bit, the implicit
\* bit is 1 exactly when the exponent is not zero.
Canonical(f, RP, u) ==
    /\ u.exponent \in 0..(Pow2(f.exp_bits) - 1)
    /\ u.mantissa % Pow2(guard_bits(RP)) = 0
    /\ f.has_implicit_bit =>
          (Bit(u.mantissa, f.mant_bits + guard_bits(RP)) = 1
             <=> u.exponent # 0)

\* C28 as stated: pack is a right inverse of unpack on canonical values.
\* For a descriptor with pairwise disjoint fields and every canonical
\* UnpackedFloat u, unpack(pack(u)) = u field for field.
C28_RightInverse ==
    (pc = "packed" /\ NonNegativeOffsets(fmt) /\ FieldsDisjoint(fmt)
       /\ Canonical(fmt, RoundingPolicy, unpacked)) =>
        unpack(fmt, RoundingPolicy, packed) = unpacked

\* C28 amended: the same for every canonical UnpackedFloat u whose mantissa
\* lies in 0 .. 2^(mant_bits + implicit + guard_bits) - 1.
C28_RightInverseAmended ==
    (pc = "packed" /\ NonNegativeOffsets(fmt) /\ FieldsDisjoint(fmt)
       /\ Canonical(fmt, RoundingPolicy, unpacked)
       /\ unpacked.mantissa < Pow2(mantissa_bits(fmt, RoundingPolicy))) =>
        unpack(fmt, RoundingPolicy, packed) = unpacked

\* C28 witness: a negative normal canonical value with a non-zero stored
\* mantissa, in a format whose mantissa type is wider than the mantissa,
\* has been packed into a mantissa field that does not start at bit 0.
C28_Witness ==
    /\ pc = "packed"
    /\ NonNegativeOffsets(fmt)
    /\ fmt.has_implicit_bit
    /\ fmt.mant_offset > 0
    /\ mantissa_type(fmt, RoundingPolicy).width
          > mantissa_bits(fmt, RoundingPolicy)
    /\ Canonical(fmt, RoundingPolicy, unpacked)
    /\ unpacked.sign
    /\ unpacked.exponent # 0
    /\ unpacked.mantissa < Pow2(mantissa_bits(fmt, RoundingPolicy))
    /\ Field(packed, fmt.mant_offset, fmt.mant_bits) # 0

----------------------------------------------------------------------------
(* Properties of round_mantissa called directly (SpecRound)                *)

\* The candidate S of a wide mantissa under ToNearestTiesToEven: the wide
\* mantissa without its three guard bits and without the implicit bit.
Candidate(f, w) == (w \div 8) % Pow2(f.mant_bits)

\* C7: TowardZero is pure truncation.  The result is the low mant_bits bits
\* of the wide mantissa (the stored bits, the implicit bit stripped); it is
\* never incremented, also when all stored bits are 1.
C7_TowardZeroTruncates ==
    (pc = "rounded" /\ RoundingPolicy = "TowardZero") =>
        rounded = wide_mantissa % Pow2(fmt.mant_bits)

\* C7 witness: a wide mantissa with the implicit bit and all stored bits set
\* has been rounded toward zero to the all-ones stored value.
C7_Witness ==
    /\ pc = "rounded"
    /\ RoundingPolicy = "TowardZero"
    /\ fmt.has_implicit_bit
    /\ wide_mantissa = Pow2(fmt.mant_bits + 1) - 1
    /\ rounded = Pow2(fmt.mant_bits) - 1

\* C8: ties-to-even law.  With GRS = 4, an even candidate S is returned
\* unchanged and an odd candidate S other than 2^mant_bits - 1 gives S + 1.
C8_TiesToEven ==
    (pc = "rounded" /\ RoundingPolicy = "ToNearestTiesToEven"
       /\ wide_mantissa % 8 = 4) =>
        LET S == Candidate(fmt, wide_mantissa)
        IN  /\ S % 2 = 0 => rounded = S
            /\ (S % 2 = 1 /\ S # Pow2(fmt.mant_bits) - 1) => rounded = S + 1

\* C8 witness: a tie on an odd candidate below the maximum has been rounded
\* up to the even neighbour.
C8_Witness ==
    /\ pc = "rounded"
    /\ RoundingPolicy = "ToNearestTiesToEven"
    /\ wide_mantissa % 8 = 4
    /\ Candidate(fmt, wide_mantissa) % 2 = 1
    /\ Candidate(fmt, wide_mantissa) < Pow2(fmt.mant_bits) - 1
    /\ rounded = Candidate(fmt, wide_mantissa) + 1

\* C9: decision table away from ties.  GRS in 0..3 returns the candidate S
\* unchanged; GRS in 5..7 returns S + 1 when S < 2^mant_bits - 1.
C9_DecisionTable ==
    (pc = "rounded" /\ RoundingPolicy = "ToNearestTiesToEven") =>
        LET S == Candidate(fmt, wide_mantissa)
            GRS == wide_mantissa % 8
        IN  /\ GRS \in 0..3 => rounded = S
            /\ (GRS \in 5..7 /\ S < Pow2(fmt.mant_bits) - 1) => rounded = S + 1

\* C9 witness: GRS = 5 on a candidate below the maximum has been rounded up.
C9_Witness ==
    /\ pc = "rounded"
    /\ RoundingPolicy = "ToNearestTiesToEven"
    /\ wide_mantissa % 8 = 5
    /\ Candidate(fmt, wide_mantissa) < Pow2(fmt.mant_bits) - 1
    /\ rounded = Candidate(fmt, wide_mantissa) + 1

\* C10: round_mantissa result width.  For both rounding policies, every
\* format, every numeric-width policy and every wide mantissa, the result
\* lies in 0 .. 2^mant_bits - 1.
C10_ResultWidth ==
    pc = "rounded" => rounded \in 0..(Pow2(fmt.mant_bits) - 1)

\* Rounding the wide mantissa w up would carry out of the mant_bits stored
\* bits: the candidate is all ones and the guard bits are at least half.
RoundingOverflows(f, w) ==
    Candidate(f, w) = Pow2(f.mant_bits) - 1 /\ w % 8 >= 4

\* |a - b|
Distance(a, b) == IF a >= b THEN a - b ELSE b - a

\* C25: round to nearest.  Under ToNearestTiesToEven, for every wide mantissa
\* w whose rounding does not overflow, with V = w without the implicit bit
\* (mant_bits + 3 bits), the result R satisfies |8R - V| <= 4, and R is even
\* when |8R - V| = 4.
C25_RoundToNearest ==
    (pc = "rounded" /\ RoundingPolicy = "ToNearestTiesToEven"
       /\ ~RoundingOverflows(fmt, wide_mantissa)) =>
        LET V == wide_mantissa % Pow2(fmt.mant_bits + 3)
        IN  /\ Distance(8 * rounded, V) <= 4
            /\ Distance(8 * rounded, V) = 4 => rounded % 2 = 0

\* C25 witness: a wide mantissa with the implicit bit set, an even candidate
\* and guard bits exactly half has been rounded to the candidate, at
\* distance 4.
C25_Witness ==
    /\ pc = "rounded"
    /\ RoundingPolicy = "ToNearestTiesToEven"
    /\ fmt.has_implicit_bit
    /\ Bit(wide_mantissa, fmt.mant_bits + 3) = 1
    /\ wide_mantissa % 8 = 4
    /\ Candidate(fmt, wide_mantissa) % 2 = 0
    /\ Candidate(fmt, wide_mantissa) > 0
    /\ 8 * rounded + 4 = wide_mantissa % Pow2(fmt.mant_bits + 3)

\* The stored bits of a wide mantissa, truncated: without guard bits and
\* without the implicit bit.
TruncatedStoredBits(f, RP, w) == Shr(w, guard_bits(RP)) % Pow2(f.mant_bits)

\* Rounding w does not carry out of the stored bits (TowardZero never does).
NoOverflow(f, RP, w) ==
    RP = "ToNearestTiesToEven" => ~RoundingOverflows(f, w)

\* C30: rounding is monotone.  Under both policies, for two wide mantissas
\* w1 <= w2 with the same implicit bit whose rounding does not overflow,
\* round_mantissa(w1) <= round_mantissa(w2), and each result exceeds the
\* truncated stored bits by 0 or 1.
C30_Monotone ==
    (pc = "rounded" /\ NoOverflow(fmt, RoundingPolicy, wide_mantissa)) =>
        /\ rounded - TruncatedStoredBits(fmt, RoundingPolicy, wide_mantissa)
              \in {0, 1}
        /\ \A w2 \in WideMantissas(fmt, RoundingPolicy) :
              ( /\ wide_mantissa <= w2
                /\ Shr(w2, fmt.mant_bits + guard_bits(RoundingPolicy))
                     = Shr(wide_mantissa,
                           fmt.mant_bits + guard_bits(RoundingPolicy))
                /\ NoOverflow(fmt, RoundingPolicy, w2) )
              => rounded <= round_mantissa(fmt, RoundingPolicy, w2,
                                           is_negative)

\* C30 witness: under ToNearestTiesToEven a wide mantissa just above a tie
\* on an even candidate has been rounded up, while the tie itself, a
\* smaller wide mantissa with the same implicit bit, rounds to the
\* candidate.
C30_Witness ==
    /\ pc = "rounded"
    /\ RoundingPolicy = "ToNearestTiesToEven"
    /\ wide_mantissa % 8 = 5
    /\ Candidate(fmt, wide_mantissa) % 2 = 0
    /\ rounded = Candidate(fmt, wide_mantissa) + 1
    /\ round_mantissa(fmt, RoundingPolicy, wide_mantissa - 1, is_negative)
          = Candidate(fmt, wide_mantissa)

----------------------------------------------------------------------------
(* Properties of unpack and pack under an exponent bias (SpecBiased)       *)

\* The descriptors that differ from f in the exponent bias only.
OtherBiases(f) ==
    { [f EXCEPT !.ExponentBias = k] : k \in (-MaxBias)..MaxBias }

\* C26: bias independence.  For any two descriptors that differ only in the
\* exponent bias, unpack and pack give identical results on every input;
\* the unpacked exponent is the raw exponent field, and an exponent field
\* of zero clears the implicit bit whatever the bias is.
C26_BiasIndependence ==
    /\ pc = "unpacked" =>
          /\ \A g \in OtherBiases(fmt) :
                unpack(g, RoundingPolicy, bits) = unpacked
          /\ unpacked.exponent = Field(bits, fmt.exp_offset, fmt.exp_bits)
          /\ (fmt.has_implicit_bit
                /\ Field(bits, fmt.exp_offset, fmt.exp_bits) = 0)
               => Bit(unpacked.mantissa,
                      fmt.mant_bits + guard_bits(RoundingPolicy)) = 0
    /\ pc \in {"packed", "repacked"} =>
          \A g \in OtherBiases(fmt) :
              pack(g, RoundingPolicy, unpacked) = packed

\* C26 witness: in a descriptor whose bias (2) is neither the automatic one
\* nor zero, a value with exponent field 1 and a value with exponent field 0
\* would change under an unbiasing unpack; the one with exponent field 1
\* has been unpacked with exponent 1 and the implicit bit set.
C26_Witness ==
    /\ pc = "unpacked"
    /\ fmt.ExponentBias = 2
    /\ fmt.exp_bits = 2
    /\ fmt.has_implicit_bit
    /\ Field(bits, fmt.exp_offset, fmt.exp_bits) = 1
    /\ unpacked.exponent = 1
    /\ Bit(unpacked.mantissa, fmt.mant_bits + guard_bits(RoundingPolicy)) = 1

----------------------------------------------------------------------------
(* Properties of the native-float oracle (SpecOracle)                      *)

\* C22: native-float oracle round trip.  For fp8_e5m2 and fp8_e4m3, each
\* rounding policy and every storage value b whose native value is neither
\* NaN nor infinite, from_native_float(to_native_float(b)) equals b on the
\* sign, exponent and mantissa bits, unless both are zeros (exponent 0 and
\* mantissa 0), which may differ in sign.
C22_OracleRoundTrip ==
    pc = "converted" =>
        \/ BitAnd(packed, significant_mask(fmt))
             = BitAnd(bits, significant_mask(fmt))
        \/ is_zero(fmt, packed) /\ is_zero(fmt, bits)

----------------------------------------------------------------------------
(* Properties of numeric-width selection (SpecSelect)                      *)

\* The standard size classes.
StandardSizes == {8, 16, 32, 64}

\* The selected type is a standard integer type of the request's signedness
\* in the smallest size class that has at least Bits bits.
SmallestStandardSize ==
    /\ pc = "selected"
    /\ selected.kind \in (IF request.signed THEN {"int_least", "int_fast"}
                          ELSE {"uint_least", "uint_fast"})
    /\ selected.size \in StandardSizes
    /\ selected.size >= request.Bits
    /\ selected.width >= selected.size
    /\ \A c \in StandardSizes : c >= request.Bits => c >= selected.size

\* The selected type is a _BitInt of the request's signedness with exactly
\* Bits bits.
ExactlyBits ==
    /\ pc = "selected"
    /\ selected.kind = (IF request.signed THEN "_BitInt"
                        ELSE "unsigned _BitInt")
    /\ selected.size = request.Bits
    /\ selected.width = request.Bits

\* The policy of the request is ExactWidth compiled with _BitInt support.
ExactWithBitInt ==
    request.Policy.name = "ExactWidth" /\ request.Policy.has_bitint_support

\* C23 as stated: numeric-width selection.  For Bits in 1..64, LeastWidth and
\* Fastest (and ExactWidth without _BitInt) select, for the unsigned and the
\* signed request, the smallest standard size class with at least Bits bits;
\* ExactWidth with _BitInt selects a representation of exactly Bits bits for
\* every Bits in 1..128.
C23_WidthSelection ==
    pc \in {"selected", "rejected"} =>
        /\ (request.Bits \in 1..64 /\ ~ExactWithBitInt)
              => SmallestStandardSize
        /\ (request.Bits \in 1..128 /\ ExactWithBitInt) => ExactlyBits

\* C23 amended: the same, except that under ExactWidth with _BitInt the
\* signed request is selected for Bits in 2..128 only, and a signed request
\* of 1 bit is rejected.
C23_WidthSelectionAmended ==
    pc \in {"selected", "rejected"} =>
        /\ (request.Bits \in 1..64 /\ ~ExactWithBitInt)
              => SmallestStandardSize
        /\ (request.Bits \in 1..128 /\ ExactWithBitInt
               /\ (~request.signed \/ request.Bits >= 2)) => ExactlyBits
        /\ (request.Bits = 1 /\ ExactWithBitInt /\ request.signed)
              => pc = "rejected"

\* C23 witness: a signed request of 9 bits has been given the 16-bit class
\* by a policy that selects standard types.
C23_Witness ==
    /\ pc = "selected"
    /\ request.signed
    /\ request.Bits = 9
    /\ ~ExactWithBitInt
    /\ selected.size = 16

----------------------------------------------------------------------------
(* Properties of concurrent calls (SpecConcurrent)                         *)

\* C24: statelessness under concurrency.  In every interleaving of the
\* statements of concurrent unpack and pack (with round_mantissa) calls,
\* each call returns what it returns when it runs alone on the same input.
C24_Stateless ==
    pc = "running" =>
        \A t \in Threads :
            LET alone == unpack(fmt, RoundingPolicy, calls[t].bits)
            IN  /\ calls[t].at \in {"pack_sign", "pack_exponent",
                                    "pack_mantissa", "done"}
                  => calls[t].unpacked = alone
                /\ calls[t].at = "done"
                  => calls[t].packed = pack(fmt, RoundingPolicy, alone)

\* C24 witness: two threads run calls on arguments that differ in every
\* field; one has returned from pack while the other is still inside it.
C24_Witness ==
    /\ pc = "running"
    /\ calls[1].at = "done"
    /\ calls[2].at = "pack_exponent"
    /\ calls[1].bits = 7
    /\ calls[2].bits = 0
    /\ calls[1].packed = 7
    /\ frames[Frame(2)].packed = 0

----------------------------------------------------------------------------
(* Properties of descriptor construction (SpecDescriptor)                  *)

\* The descriptor is past instantiation and was accepted.
Accepted == pc \notin {"declared", "rejected"}

\* A field width is zero or negative, a field ends beyond total_bits, or
\* total_bits is smaller than the sum of the field widths.
BadGeometry(f) ==
    \/ f.sign_bits <= 0 \/ f.exp_bits <= 0 \/ f.mant_bits <= 0
    \/ f.sign_offset + f.sign_bits > f.total_bits
    \/ f.exp_offset + f.exp_bits > f.total_bits
    \/ f.mant_offset + f.mant_bits > f.total_bits
    \/ f.total_bits < f.sign_bits + f.exp_bits + f.mant_bits

\* C13: descriptor validation fails fast.  A declaration with a zero or
\* negative field width, a field whose offset + width exceeds total_bits, or
\* total_bits smaller than the sum of the widths is rejected when it is
\* instantiated, and is never in a state where it can be used.
C13_ValidationFailsFast ==
    (pc # "declared" /\ BadGeometry(fmt)) => pc = "rejected"

\* C13 witness: a declaration whose only defect is a mantissa field that
\* ends beyond total_bits has been rejected.
C13_Witness ==
    /\ pc = "rejected"
    /\ fmt.sign_bits > 0 /\ fmt.exp_bits > 0 /\ fmt.mant_bits > 0
    /\ fmt.total_bits >= fmt.sign_bits + fmt.exp_bits + fmt.mant_bits
    /\ fmt.sign_offset + fmt.sign_bits <= fmt.total_bits
    /\ fmt.exp_offset + fmt.exp_bits <= fmt.total_bits
    /\ fmt.mant_offset + fmt.mant_bits > fmt.total_bits

\* C14: non-negative geometry.  Every descriptor that passes the
\* construction checks has sign_offset, exp_offset and mant_offset >= 0.
C14_NonNegativeGeometry ==
    Accepted =>
        fmt.sign_offset >= 0 /\ fmt.exp_offset >= 0 /\ fmt.mant_offset >= 0

\* The bit positions of the storage value that no field covers.
UncoveredPositions(f) ==
    (0..(f.total_bits - 1))
        \ (FieldBitsOf(f.sign_offset, f.sign_bits)
             \cup FieldBitsOf(f.exp_offset, f.exp_bits)
             \cup FieldBitsOf(f.mant_offset, f.mant_bits))

\* C15: padding is the slack.  In every descriptor that passes the
\* construction checks the three fields are pairwise disjoint, and the
\* number of positions no field covers is total_bits less the sum of the
\* field widths.  (Stated for descriptors whose offsets are not negative;
\* the others are the subject of C14.)
C15_PaddingIsSlack ==
    (Accepted /\ fmt.sign_offset >= 0 /\ fmt.exp_offset >= 0
       /\ fmt.mant_offset >= 0) =>
        /\ FieldsDisjoint(fmt)
        /\ Cardinality(UncoveredPositions(fmt))
             = fmt.total_bits - (fmt.sign_bits + fmt.exp_bits + fmt.mant_bits)

\* The biases of the named formats: 15, 7, 127 and 1023.
ReferenceBiases ==
    pc = "bias_read" =>
        /\ fmt \in {fp8_e5m2(TRUE), fp8_e5m2(FALSE)} => bias = 15
        /\ fmt \in {fp16_e5m10(TRUE), fp16_e5m10(FALSE)} => bias = 15
        /\ fmt \in {fp8_e4m3(TRUE), fp8_e4m3(FALSE)} => bias = 7
        /\ fmt \in {fp32_e8m23(TRUE), fp32_e8m23(FALSE)} => bias = 127
        /\ fmt \in {fp64_e11m52(TRUE), fp64_e11m52(FALSE)} => bias = 1023

\* C16 as stated: exp_bias is the supplied bias for every supplied integer,
\* and 2^(exp_bits-1) - 1 when none is supplied; the named formats have
\* biases 15, 7, 127 and 1023.
C16_ExponentBias ==
    /\ pc = "bias_read" =>
         IF bias_supplied THEN bias = fmt.ExponentBias
         ELSE bias = Pow2(fmt.exp_bits - 1) - 1
    /\ ReferenceBiases

\* C16 as amended: exp_bias is the supplied bias for every supplied integer
\* other than -1; when no bias or -1 is supplied it is 2^(exp_bits-1) - 1,
\* which can be read for exp_bits <= 31 only; the named formats have biases
\* 15, 7, 127 and 1023.
C16_ExponentBiasAmended ==
    /\ pc = "bias_read" =>
         IF bias_supplied /\ fmt.ExponentBias # -1
         THEN bias = fmt.ExponentBias
         ELSE bias = Pow2(fmt.exp_bits - 1) - 1 /\ fmt.exp_bits <= 31
    /\ pc = "ill_formed" => fmt.ExponentBias = -1 /\ fmt.exp_bits > 31
    /\ ReferenceBiases

\* C16 witness: a supplied bias that differs from the automatic one has been
\* read back.
C16_Witness ==
    /\ pc = "bias_read"
    /\ bias_supplied
    /\ fmt.exp_bits = 2
    /\ fmt.ExponentBias = 2
    /\ bias = 2

\* The descriptor has the shape IEEE_Format promises: one sign bit on top,
\* the exponent below it, the mantissa at bit 0, no slack, an implicit bit
\* and the automatic bias.
IEEEShape(f) ==
    /\ f.sign_bits = 1
    /\ f.sign_offset = f.exp_bits + f.mant_bits
    /\ f.exp_offset = f.mant_bits
    /\ f.mant_offset = 0
    /\ f.total_bits = 1 + f.exp_bits + f.mant_bits
    /\ f.has_implicit_bit
    /\ f.ExponentBias = -1

\* C17 as stated: for every exp_bits > 0 and mant_bits > 0, IEEE_Format
\* gives a descriptor of that shape which passes validation and for which
\* is_standard_layout() is true.
C17_IEEEGenerator ==
    (fmt \in IEEEDeclarations /\ ~bias_supplied) =>
        /\ fmt.exp_bits > 0 /\ fmt.mant_bits > 0
        /\ IEEEShape(fmt)
        /\ pc # "rejected"
        /\ pc = "layout_read" => standard

\* C17 as amended: for every exp_bits > 0 and mant_bits > 0 whose total
\* 1 + exp_bits + mant_bits is at most 128, and at most 64 when the compiler
\* has no _BitInt, IEEE_Format gives a descriptor of that shape which passes
\* validation and for which is_standard_layout() is true; a wider one does
\* not compile.
C17_IEEEGeneratorAmended ==
    (fmt \in IEEEDeclarations /\ ~bias_supplied) =>
        /\ fmt.exp_bits > 0 /\ fmt.mant_bits > 0
        /\ IEEEShape(fmt)
        /\ pc = "rejected" <=>
             /\ pc # "declared"
             /\ \/ fmt.total_bits > 128
                \/ fmt.total_bits > 64 /\ ~fmt.type_policy.has_bitint_support
        /\ pc = "layout_read" => standard

\* C17 witness: fp64_e11m52 compiled without _BitInt has been instantiated
\* and reports a standard layout.
C17_Witness ==
    /\ pc = "layout_read"
    /\ fmt = fp64_e11m52(FALSE)
    /\ standard

\* The fields are contiguous, the mantissa is at offset 0, the sign field is
\* at the most-significant position and there are no slack bits.
ContiguousNoSlack(f) ==
    /\ f.exp_offset = f.mant_offset + f.mant_bits
    /\ f.sign_offset = f.exp_offset + f.exp_bits
    /\ f.mant_offset = 0
    /\ f.sign_offset + f.sign_bits = f.total_bits
    /\ f.total_bits = f.sign_bits + f.exp_bits + f.mant_bits

\* C18 as stated: is_standard_layout() is true iff the fields are
\* contiguous, the mantissa is at offset 0, the sign is at the
\* most-significant position and total_bits is the sum of the widths.
C18_StandardLayout ==
    pc = "layout_read" => (standard <=> ContiguousNoSlack(fmt))

\* C18 as amended: is_standard_layout() is true iff the sign field is one
\* bit wide and the fields are contiguous, the mantissa is at offset 0, the
\* sign is at the most-significant position and total_bits is the sum of
\* the widths.
C18_StandardLayoutAmended ==
    pc = "layout_read" =>
        (standard <=> (fmt.sign_bits = 1 /\ ContiguousNoSlack(fmt)))

\* C18 witness: a contiguous layout without slack whose sign field is two
\* bits wide has been asked, and is not standard.
C18_Witness ==
    /\ pc = "layout_read"
    /\ fmt.sign_bits = 2
    /\ ContiguousNoSlack(fmt)
    /\ ~standard

====
